---- MODULE Spec2Model ----
(***************************************************************************)
(* Model of the sorbus green tree: Token, Node (Node::new, offsets,        *)
(* index_of_offset), the Builder construction cache (token, node, gc) on   *)
(* top of hashbrown's raw table, and the reference counts of the handles.  *)
(***************************************************************************)
EXTENDS Integers, Sequences, FiniteSets, TLC

VARIABLES
    heap,     \* address -> allocation (Token or Node) with its Arc strong count
    ext,      \* address -> number of handles held outside the Builder's pool
    nodes,    \* Builder.nodes : HashMap<ThinEqNode, (), ()>
    tokens,   \* Builder.tokens: HashMap<Arc<Token>, (), ()>
    hasher,   \* Builder.hasher: the seed of ahash::RandomState
    env,      \* the inputs the environment draws from (fixed by Init)
    last,     \* the last Builder call: what it returned, size() before it
    nd,       \* the node written by the last Node::new of the layout specification
    probe,    \* the last index_of_offset call on nd and its outcome
    tb,       \* the TreeBuilder: its stack of open nodes and its child buffer
    sh,       \* a second TreeBuilder with its own world, run beside tb
    it,       \* a Children iterator over a node, with what it has yielded
    rp,       \* a script of TreeBuilder calls that is run twice, and where it is
    dr,       \* threads that drop node handles, step by step
    de        \* a deserialization: its input, and what it returned

vars == <<heap, ext, nodes, tokens, hasher, env, last, nd, probe, tb, sh, it,
          rp, dr, de>>

-----------------------------------------------------------------------------
(* Bounds of the model.                                                     *)

MaxAddr == 6          \* addresses of the heap: 1..MaxAddr
MaxExt == 1           \* handles one user holds on one allocation
MaxKind == 1          \* kinds 0..MaxKind
MaxTextLen == 1       \* token texts have at most this many bytes
MaxChildren == 1      \* children per Builder::node call
MaxNodeObjs == 2      \* live nodes in the Builder specification
MaxTokenObjs == 1     \* live tokens in the Builder specification

Addrs == 1..MaxAddr
Kinds == 0..MaxKind

-----------------------------------------------------------------------------
(* Small helpers.                                                           *)

Min(S) == CHOOSE x \in S : \A y \in S : x <= y
Max(S) == CHOOSE x \in S : \A y \in S : x >= y

RECURSIVE SumSeq(_)
SumSeq(s) == IF s = <<>> THEN 0 ELSE Head(s) + SumSeq(Tail(s))

\* All sequences over S of length 0..n.
SeqsUpTo(S, n) == UNION {[1..m -> S] : m \in 0..n}

-----------------------------------------------------------------------------
(* TextSize is a u32 (lib.rs: transmute::<u32, TextSize>).  A value is kept *)
(* as two 16-bit limbs, v = hi * 2^16 + lo, so that the full 32-bit range   *)
(* and its overflow are computed exactly.  `+=` on TextSize is the          *)
(* primitive u32 add: with overflow checks (debug profile) an overflowing   *)
(* add panics, without them (release profile) it wraps modulo 2^32.         *)

TextSizeBits == 32
LimbMod == 2 ^ (TextSizeBits \div 2)

TS(h, l) == [hi |-> h, lo |-> l]
TsZero == TS(0, 0)

\* TextSize::try_from(usize) for the small lengths of modelled token texts.
TsFromUsize(n) == TS(n \div LimbMod, n % LimbMod)

\* The exact (unbounded) sum of two lengths: hi is allowed to exceed 16 bits.
WideAdd(a, b) ==
    LET l == a.lo + b.lo
    IN  TS(a.hi + b.hi + l \div LimbMod, l % LimbMod)

TsOverflows(a, b) == WideAdd(a, b).hi >= LimbMod

\* u32 wrapping add.
TsWrappingAdd(a, b) ==
    LET w == WideAdd(a, b) IN TS(w.hi % LimbMod, w.lo)

TsLt(a, b) == a.hi < b.hi \/ (a.hi = b.hi /\ a.lo < b.lo)
TsLe(a, b) == a = b \/ TsLt(a, b)

RECURSIVE WideSum(_)
WideSum(s) == IF s = <<>> THEN TsZero ELSE WideAdd(Head(s), WideSum(Tail(s)))

\* usize::MAX stands for the wrapped value of `0 - 1` on usize.
UsizeMax == -1

-----------------------------------------------------------------------------
(* Node::new and ChildrenWriter (node.rs).  An element handed to Node::new  *)
(* is a packed handle; `len` is what node.len() / token.len() reads through *)
(* it.  A written slot keeps the pointer, the offset and the layout it was  *)
(* written with (full aligned at even indices, half aligned at odd ones).   *)

Elem(p, l) == [ptr |-> p, len |-> l]

ChildrenWriterNew == [slots |-> <<>>, len |-> 0, text_len |-> TsZero, fault |-> FALSE]

\* ChildrenWriter::push, lines 171-183.
ChildrenWriterPush(w, element, overflow_checks) ==
    LET offset == w.text_len
    IN  IF TsOverflows(w.text_len, element.len) /\ overflow_checks
        THEN [w EXCEPT !.fault = TRUE]
        ELSE [w EXCEPT !.text_len = TsWrappingAdd(w.text_len, element.len),
                       !.slots = Append(@, [ptr |-> element.ptr,
                                            offset |-> offset,
                                            full |-> (w.len % 2 = 0)]),
                       !.len = @ + 1]

RECURSIVE WriteChildren(_, _, _)
WriteChildren(w, children, overflow_checks) ==
    IF children = <<>> \/ w.fault THEN w
    ELSE WriteChildren(ChildrenWriterPush(w, Head(children), overflow_checks),
                       Tail(children), overflow_checks)

\* ChildrenWriter::finish.
ChildrenWriterFinish(w) == w.text_len

\* Drop for ChildrenWriter, lines 158-164, which runs when Node::new unwinds
\* or Node::try_new returns an error: ptr::drop_in_place on the written
\* [Element].  Element is a union (element.rs lines 50-54) and has no Drop
\* impl, so the slice has no drop glue: no handle in a written slot is
\* released, the heap h stays as it is whatever handles were written.
ChildrenWriterDrop(h, written) == h

U16Max == 65535

\* Node::new, lines 202-233: the header, then every child, then text_len.
NodeNew(kind, children, overflow_checks) ==
    LET w == WriteChildren(ChildrenWriterNew, children, overflow_checks)
    IN  [fault |-> (Len(children) > U16Max) \/ w.fault,
         kind |-> kind,
         children_len |-> Len(children),
         text_len |-> ChildrenWriterFinish(w),
         children |-> w.slots]

\* Element::offset: the slot's offset field, read through the layout that
\* the slot's own address selects (index parity).
ElementOffset(node, i) == node.children[i + 1].offset

-----------------------------------------------------------------------------
(* slice::binary_search_by_key as Node::index_of_offset calls it.  The      *)
(* standard library documents that with several equal keys any of them may  *)
(* be returned; the two algorithms it has shipped are modelled: the         *)
(* branchless one (ends on the last key <= target) and the early-return     *)
(* one (returns the first midpoint whose key equals the target).            *)

RECURSIVE BranchlessLoop(_, _, _, _)
BranchlessLoop(keys, target, base, size) ==
    IF size <= 1 THEN base
    ELSE LET half == size \div 2
             mid == base + half
         IN  BranchlessLoop(keys, target,
                            IF TsLt(target, keys[mid + 1]) THEN base ELSE mid,
                            size - half)

BinarySearchBranchless(keys, target) ==
    IF Len(keys) = 0 THEN [found |-> FALSE, index |-> 0]
    ELSE LET base == BranchlessLoop(keys, target, 0, Len(keys))
         IN  IF keys[base + 1] = target THEN [found |-> TRUE, index |-> base]
             ELSE [found |-> FALSE,
                   index |-> base + (IF TsLt(keys[base + 1], target) THEN 1 ELSE 0)]

RECURSIVE EarlyLoop(_, _, _, _)
EarlyLoop(keys, target, left, right) ==
    IF left >= right THEN [found |-> FALSE, index |-> left]
    ELSE LET mid == left + (right - left) \div 2
         IN  IF TsLt(keys[mid + 1], target) THEN EarlyLoop(keys, target, mid + 1, right)
             ELSE IF TsLt(target, keys[mid + 1]) THEN EarlyLoop(keys, target, left, mid)
             ELSE [found |-> TRUE, index |-> mid]

BinarySearchEarly(keys, target) == EarlyLoop(keys, target, 0, Len(keys))

BinarySearchImpls == {"branchless", "early_return"}

BinarySearchByKey(impl, keys, target) ==
    IF impl = "branchless" THEN BinarySearchBranchless(keys, target)
    ELSE BinarySearchEarly(keys, target)

\* index_of_offset with the bound check written `offset <= self.len()`.
IndexOfOffsetInclusive(node, offset, impl, overflow_checks) ==
    IF ~TsLe(offset, node.text_len)
    THEN [fault |-> TRUE, index |-> 0, fallback |-> FALSE, underflow |-> FALSE]
    ELSE LET keys == [i \in 1..Len(node.children) |-> ElementOffset(node, i - 1)]
             r == BinarySearchByKey(impl, keys, offset)
         IN  IF r.found
             THEN [fault |-> FALSE, index |-> r.index,
                   fallback |-> FALSE, underflow |-> FALSE]
             ELSE IF r.index = 0
                  THEN [fault |-> overflow_checks, index |-> UsizeMax,
                        fallback |-> TRUE, underflow |-> TRUE]
                  ELSE [fault |-> FALSE, index |-> r.index - 1,
                        fallback |-> TRUE, underflow |-> FALSE]

\* Node::index_of_offset, lines 143-148.  `fallback` records that the
\* unwrap_or_else closure ran; `index - 1` on usize with index 0 panics
\* under overflow checks and wraps to usize::MAX without them.
IndexOfOffset(node, offset, impl, overflow_checks) ==
    IF ~TsLt(offset, node.text_len)
    THEN [fault |-> TRUE, index |-> 0, fallback |-> FALSE, underflow |-> FALSE]
    ELSE LET keys == [i \in 1..Len(node.children) |-> ElementOffset(node, i - 1)]
             r == BinarySearchByKey(impl, keys, offset)
         IN  IF r.found
             THEN [fault |-> FALSE, index |-> r.index,
                   fallback |-> FALSE, underflow |-> FALSE]
             ELSE IF r.index = 0
                  THEN [fault |-> overflow_checks, index |-> UsizeMax,
                        fallback |-> TRUE, underflow |-> TRUE]
                  ELSE [fault |-> FALSE, index |-> r.index - 1,
                        fallback |-> TRUE, underflow |-> FALSE]

-----------------------------------------------------------------------------
(* Hashing.  do_hash feeds the words a Hash impl writes to the hasher that  *)
(* Builder.hasher (ahash::RandomState) builds; the state is seeded per      *)
(* Builder.  The 64-bit hash is scaled to HashBits bits: the table takes    *)
(* the position from the low bits (h1) and the control byte from the top    *)
(* H2Bits bits (h2), as hashbrown does with 64 and 7.                       *)

HashBits == 5
H2Bits == 1
HashSpace == 2 ^ HashBits

\* One write_* call: absorb a word, then permute (x(2x+1) is a permutation
\* modulo a power of two).
Mix(h, w) ==
    LET x == (h + w + 1) % HashSpace
    IN  (x * (2 * x + 1)) % HashSpace

RECURSIVE Write(_, _)
Write(h, words) ==
    IF words = <<>> THEN h ELSE Write(Mix(h, Head(words)), Tail(words))

\* <str as Hash>::hash: the bytes, then write_u8(0xff).
StrTerminator == 255
HashStr(h, text) == Mix(Write(h, text), StrTerminator)

\* <[u8] as Hash>::hash: the length prefix, then the bytes.
HashSlice(h, bytes) == Write(Mix(h, Len(bytes)), bytes)

\* ptr::hash of a reference to a Node or Token: both are slice DSTs, the
\* reference is a fat pointer and its address and its metadata are written.
HashPtr(h, addr, meta) == Mix(Mix(h, addr), meta)

h1(hash) == hash
h2(hash) == hash \div (2 ^ (HashBits - H2Bits))

-----------------------------------------------------------------------------
(* hashbrown::raw::RawTable, the storage of Builder.nodes and               *)
(* Builder.tokens (HashMap<_, (), ()>), for the generic (non-SSE2) group    *)
(* implementation of a 32-bit target: a group is one u32, four control      *)
(* bytes.  ctrl holds bucket_mask + 1 + GroupWidth control bytes (the first *)
(* GroupWidth are replicated at the end), data the stored handle per        *)
(* bucket (0: none).                                                        *)

GroupWidth == 4
EMPTY == 255
DELETED == 128

IsFull(c) == c < DELETED

RECURSIVE NextPowerOfTwo(_)
NextPowerOfTwo(n) == IF n <= 1 THEN 1 ELSE 2 * NextPowerOfTwo((n + 1) \div 2)

\* capacity_to_buckets: one free bucket on small tables, 87.5% load otherwise.
SmallTableCap == 8
CapacityToBuckets(cap) ==
    NextPowerOfTwo(IF cap < SmallTableCap THEN cap + 1 ELSE (cap * 8) \div 7)

BucketMaskToCapacity(bucket_mask) ==
    IF bucket_mask < SmallTableCap THEN bucket_mask
    ELSE ((bucket_mask + 1) \div 8) * 7

Buckets(t) == t.bucket_mask + 1

\* RawTable::new: the shared static empty group, no allocation.
RawTableNew ==
    [bucket_mask |-> 0,
     ctrl |-> [i \in 1..(1 + GroupWidth) |-> EMPTY],
     data |-> <<0>>,
     growth_left |-> 0,
     items |-> 0]

\* RawTable::with_capacity for capacity > 0.
RawTableWithCapacity(capacity) ==
    LET buckets == CapacityToBuckets(capacity)
    IN  [bucket_mask |-> buckets - 1,
         ctrl |-> [i \in 1..(buckets + GroupWidth) |-> EMPTY],
         data |-> [i \in 1..buckets |-> 0],
         growth_left |-> BucketMaskToCapacity(buckets - 1),
         items |-> 0]

Ctrl(t, i) == t.ctrl[i + 1]
Bucket(t, i) == t.data[i + 1]

\* Group::load at an unaligned position: GroupWidth bytes, byte 0 lowest.
GroupLoad(t, pos) == [i \in 0..(GroupWidth - 1) |-> Ctrl(t, pos + i)]

\* Group::match_byte of the generic implementation:
\* (cmp - 0x01010101) & ~cmp & 0x80808080 with cmp = group ^ repeat(byte).
\* A byte that differs from `byte` in its lowest bit only is reported too
\* when the subtraction borrows into it from the byte below.
DiffersInLowBit(c, byte) == c # byte /\ c \div 2 = byte \div 2

RECURSIVE BorrowInto(_, _, _)
BorrowInto(group, byte, i) ==
    /\ i > 0
    /\ \/ group[i - 1] = byte
       \/ DiffersInLowBit(group[i - 1], byte) /\ BorrowInto(group, byte, i - 1)

MatchByte(group, byte) ==
    {i \in DOMAIN group :
        \/ group[i] = byte
        \/ DiffersInLowBit(group[i], byte) /\ BorrowInto(group, byte, i)}

MatchEmpty(group) == {i \in DOMAIN group : group[i] = EMPTY}
MatchEmptyOrDeleted(group) == {i \in DOMAIN group : ~IsFull(group[i])}

\* BitMask::leading_zeros / trailing_zeros, in bytes of the group.
LeadingZeros(bits) ==
    IF bits = {} THEN GroupWidth ELSE GroupWidth - 1 - Max(bits)
TrailingZeros(bits) ==
    IF bits = {} THEN GroupWidth ELSE Min(bits)

\* ProbeSeq::next: triangular probing over groups.
ProbeStart(t, hash) == h1(hash) % Buckets(t)
ProbeNextStride(stride) == stride + GroupWidth
ProbeNextPos(t, pos, stride) == (pos + ProbeNextStride(stride)) % Buckets(t)

NotFound == -1

\* RawTable::find: `matching` is the set of stored handles on which the
\* caller's eq closure returns true.  Only buckets whose control byte
\* match_byte reports are passed to eq; the first one accepted is returned.
RECURSIVE FindFrom(_, _, _, _, _)
FindFrom(t, hash, matching, pos, stride) ==
    LET group == GroupLoad(t, pos)
        hits == {bit \in MatchByte(group, h2(hash)) :
                    Bucket(t, (pos + bit) % Buckets(t)) \in matching}
    IN  IF hits # {} THEN (pos + Min(hits)) % Buckets(t)
        ELSE IF MatchEmpty(group) # {} THEN NotFound
        ELSE FindFrom(t, hash, matching,
                      ProbeNextPos(t, pos, stride), ProbeNextStride(stride))

Find(t, hash, matching) == FindFrom(t, hash, matching, ProbeStart(t, hash), 0)

\* RawTable::find_insert_slot: the first EMPTY or DELETED bucket on the
\* probe sequence; on tables smaller than a group the trailing EMPTY bytes
\* may match and mask to a full bucket, then the first group is rescanned.
RECURSIVE FindInsertSlotFrom(_, _, _)
FindInsertSlotFrom(t, pos, stride) ==
    LET bits == MatchEmptyOrDeleted(GroupLoad(t, pos))
    IN  IF bits # {}
        THEN LET result == (pos + Min(bits)) % Buckets(t)
             IN  IF IsFull(Ctrl(t, result))
                 THEN Min(MatchEmptyOrDeleted(GroupLoad(t, 0)))
                 ELSE result
        ELSE FindInsertSlotFrom(t, ProbeNextPos(t, pos, stride),
                                ProbeNextStride(stride))

FindInsertSlot(t, hash) == FindInsertSlotFrom(t, ProbeStart(t, hash), 0)

\* RawTable::set_ctrl: the byte and its replica.
SetCtrl(t, index, c) ==
    LET index2 == ((index - GroupWidth + GroupWidth * Buckets(t)) % Buckets(t))
                      + GroupWidth
    IN  [t EXCEPT !.ctrl = [[@ EXCEPT ![index + 1] = c] EXCEPT ![index2 + 1] = c]]

\* RawTable::erase_no_drop: a bucket inside a run of GroupWidth non-empty
\* control bytes becomes a tombstone, any other becomes EMPTY again.
Erase(t, index) ==
    LET index_before == (index - GroupWidth + GroupWidth * Buckets(t)) % Buckets(t)
        empty_before == MatchEmpty(GroupLoad(t, index_before))
        empty_after == MatchEmpty(GroupLoad(t, index))
        tombstone == LeadingZeros(empty_before) + TrailingZeros(empty_after) >= GroupWidth
        t1 == SetCtrl(t, index, IF tombstone THEN DELETED ELSE EMPTY)
    IN  [t1 EXCEPT !.growth_left = IF tombstone THEN @ ELSE @ + 1,
                   !.items = @ - 1,
                   !.data[index + 1] = 0]

\* The copy loop of RawTable::resize: every full bucket of the old table, in
\* bucket order, is hashed with the caller's hasher and placed in the new one.
RECURSIVE ResizeCopy(_, _, _, _)
ResizeCopy(old, new, hasher_of, i) ==
    IF i > old.bucket_mask THEN new
    ELSE IF ~IsFull(Ctrl(old, i)) THEN ResizeCopy(old, new, hasher_of, i + 1)
    ELSE LET hash == hasher_of[Bucket(old, i)]
             index == FindInsertSlot(new, hash)
             placed == [SetCtrl(new, index, h2(hash))
                           EXCEPT !.data[index + 1] = Bucket(old, i)]
         IN  ResizeCopy(old, placed, hasher_of, i + 1)

\* RawTable::resize
Resize(t, capacity, hasher_of) ==
    LET fresh == RawTableWithCapacity(capacity)
        new_table == [fresh EXCEPT !.growth_left = @ - t.items, !.items = t.items]
    IN  ResizeCopy(t, new_table, hasher_of, 0)

\* RawTable::rehash_in_place, first loop: full -> DELETED, special -> EMPTY,
\* then the replicated bytes are copied from the front.
PrepareRehashInPlace(t) ==
    LET conv == [i \in 1..Buckets(t) |-> IF IsFull(t.ctrl[i]) THEN DELETED ELSE EMPTY]
    IN  [t EXCEPT !.ctrl =
            [i \in 1..(Buckets(t) + GroupWidth) |->
                IF i <= Buckets(t) THEN conv[i]
                ELSE IF Buckets(t) < GroupWidth
                     THEN (IF i > GroupWidth THEN conv[i - GroupWidth] ELSE EMPTY)
                     ELSE conv[i - Buckets(t)]]]

\* probe_index of rehash_in_place: the group of the probe sequence of `hash`
\* in which bucket `pos` lies.
ProbeIndex(t, hash, pos) ==
    ((pos - ProbeStart(t, hash) + Buckets(t)) % Buckets(t)) \div GroupWidth

\* RawTable::rehash_in_place, second loop ('outer over i, 'inner while the
\* element swapped into bucket i still has to be placed).
RECURSIVE RehashLoop(_, _, _)
RehashLoop(t, hasher_of, i) ==
    IF i > t.bucket_mask THEN t
    ELSE IF Ctrl(t, i) # DELETED THEN RehashLoop(t, hasher_of, i + 1)
    ELSE LET item == Bucket(t, i)
             hash == hasher_of[item]
             new_i == FindInsertSlot(t, hash)
         IN  IF ProbeIndex(t, hash, i) = ProbeIndex(t, hash, new_i)
             THEN RehashLoop(SetCtrl(t, i, h2(hash)), hasher_of, i + 1)
             ELSE LET prev_ctrl == Ctrl(t, new_i)
                      t1 == SetCtrl(t, new_i, h2(hash))
                  IN  IF prev_ctrl = EMPTY
                      THEN RehashLoop([SetCtrl(t1, i, EMPTY)
                                          EXCEPT !.data[new_i + 1] = item,
                                                 !.data[i + 1] = 0],
                                      hasher_of, i + 1)
                      ELSE RehashLoop([t1 EXCEPT !.data[new_i + 1] = item,
                                                 !.data[i + 1] = Bucket(t, new_i)],
                                      hasher_of, i)

RehashInPlace(t, hasher_of) ==
    LET done == RehashLoop(PrepareRehashInPlace(t), hasher_of, 0)
    IN  [done EXCEPT !.growth_left = BucketMaskToCapacity(done.bucket_mask) - done.items]

\* RawTable::reserve_rehash(additional = 1)
ReserveRehash(t, hasher_of) ==
    LET new_items == t.items + 1
        full_capacity == BucketMaskToCapacity(t.bucket_mask)
    IN  IF new_items <= full_capacity \div 2
        THEN RehashInPlace(t, hasher_of)
        ELSE Resize(t, Max({new_items, full_capacity + 1}), hasher_of)

\* RawTable::insert: grows first when no growth is left and the slot found
\* is EMPTY (a tombstone is reused without growing).
Insert(t, hash, value, hasher_of) ==
    LET index0 == FindInsertSlot(t, hash)
        old_ctrl == Ctrl(t, index0)
        grow == t.growth_left = 0 /\ old_ctrl = EMPTY
        t1 == IF grow THEN ReserveRehash(t, hasher_of) ELSE t
        index == IF grow THEN FindInsertSlot(t1, hash) ELSE index0
        t2 == SetCtrl(t1, index, h2(hash))
    IN  [t2 EXCEPT !.growth_left = IF old_ctrl = EMPTY THEN @ - 1 ELSE @,
                   !.items = @ + 1,
                   !.data[index + 1] = value]

\* HashMap::len
TableLen(t) == t.items

\* The handles a table stores, and the bucket of a stored handle.
Stored(t) == {Bucket(t, i) : i \in {j \in 0..t.bucket_mask : IsFull(Ctrl(t, j))}}

-----------------------------------------------------------------------------
(* The heap: Arc<Token> and Arc<Node> allocations with their strong counts. *)
(* A child slot of a node owns one handle to the child.                     *)

FreeCell == [tag |-> "free", kind |-> 0, text |-> <<>>, text_len |-> TsZero,
             children |-> <<>>, rc |-> 0]

EmptyHeap == [a \in Addrs |-> FreeCell]

Live(h) == {a \in DOMAIN h : h[a].tag # "free"}
LiveNodes(h) == {a \in DOMAIN h : h[a].tag = "node"}
LiveTokens(h) == {a \in DOMAIN h : h[a].tag = "token"}

\* The allocator hands out the lowest free address (freed memory is reused).
Alloc(h) == Min(DOMAIN h \ Live(h))

\* Token::new, token.rs lines 104-123; the new Arc has strong count 1.
TokenNew(kind, text) ==
    [tag |-> "token", kind |-> kind, text |-> text,
     text_len |-> TsFromUsize(Len(text)), children |-> <<>>, rc |-> 1]

\* node.len() / token.len() read through a handle.
ElementLen(h, a) == h[a].text_len

\* The slice metadata of the fat reference to an allocation.
Metadata(h, a) == IF h[a].tag = "node" THEN Len(h[a].children) ELSE Len(h[a].text)

\* A clone that hands out a handle without counting it.
ArcCloneUncounted(h, a) == h

\* Arc::clone
ArcClone(h, a) == [h EXCEPT ![a].rc = @ + 1]

RECURSIVE CloneAll(_, _)
CloneAll(h, handles) ==
    IF handles = <<>> THEN h ELSE CloneAll(ArcClone(h, Head(handles)), Tail(handles))

\* Dropping an Arc<Token>: the last handle frees the allocation.
DropToken(h, a) ==
    IF h[a].rc = 1 THEN [h EXCEPT ![a] = FreeCell] ELSE [h EXCEPT ![a].rc = @ - 1]

\* drop_into that queues the node children and forgets the token children.
RECURSIVE DropIntoNodesOnly(_, _, _)
DropIntoNodesOnly(h, children, stack) ==
    IF children = <<>> THEN [heap |-> h, stack |-> stack]
    ELSE LET c == Head(children).ptr
         IN  IF h[c].tag = "node"
             THEN DropIntoNodesOnly(h, Tail(children), Append(stack, c))
             ELSE DropIntoNodesOnly(h, Tail(children), stack)

\* drop_into, node.rs lines 87-98: the children are taken out of the node in
\* order; node children are queued, token children are dropped at once.
RECURSIVE DropInto(_, _, _)
DropInto(h, children, stack) ==
    IF children = <<>> THEN [heap |-> h, stack |-> stack]
    ELSE LET c == Head(children).ptr
         IN  IF h[c].tag = "node"
             THEN DropInto(h, Tail(children), Append(stack, c))
             ELSE DropInto(DropToken(h, c), Tail(children), stack)

\* The loop of Node::drop, lines 103-105, with maybe_drop_into, lines 64-78:
\* a popped handle that is the last one has its children queued and its
\* allocation released, any other is decremented.
RECURSIVE DrainStack(_, _)
DrainStack(h, stack) ==
    IF stack = <<>> THEN h
    ELSE LET this == stack[Len(stack)]
             rest == SubSeq(stack, 1, Len(stack) - 1)
         IN  IF h[this].rc = 1
             THEN LET r == DropInto(h, h[this].children, rest)
                  IN  DrainStack([r.heap EXCEPT ![this] = FreeCell], r.stack)
             ELSE DrainStack([h EXCEPT ![this].rc = @ - 1], rest)

\* Dropping an Arc<Node>: the last handle runs Node::drop, lines 51-108.
DropNode(h, a) ==
    IF h[a].rc > 1 THEN [h EXCEPT ![a].rc = @ - 1]
    ELSE LET r == DropInto(h, h[a].children, <<>>)
         IN  DrainStack([r.heap EXCEPT ![a] = FreeCell], r.stack)

DropHandle(h, a) == IF h[a].tag = "node" THEN DropNode(h, a) ELSE DropToken(h, a)

\* Arc<Node> built by Node::new from handles that are moved into it.
NodeAlloc(h, kind, children, overflow_checks) ==
    LET n == NodeNew(kind, [i \in 1..Len(children) |->
                               Elem(children[i], ElementLen(h, children[i]))],
                     overflow_checks)
    IN  [fault |-> n.fault,
         written |-> IF Len(children) > U16Max THEN <<>>
                     ELSE [i \in 1..Len(n.children) |-> n.children[i].ptr],
         cell |-> [tag |-> "node", kind |-> kind, text |-> <<>>,
                   text_len |-> n.text_len, children |-> n.children, rc |-> 1]]

-----------------------------------------------------------------------------
(* ThinEqNode, builder.rs lines 15-42, and the hashes the Builder uses.     *)

\* PartialEq for ThinEqNode: the kinds, then the zipped children pairwise by
\* variant and address; zip stops at the end of the shorter sequence.
ThinEq(h, a, b) ==
    /\ h[a].kind = h[b].kind
    /\ \A i \in 1..Min({Len(h[a].children), Len(h[b].children)}) :
          /\ h[h[a].children[i].ptr].tag = h[h[b].children[i].ptr].tag
          /\ h[a].children[i].ptr = h[b].children[i].ptr

RECURSIVE HashChildren(_, _, _)
HashChildren(h, state, children) ==
    IF children = <<>> THEN state
    ELSE HashChildren(h, HashPtr(state, Head(children).ptr,
                                 Metadata(h, Head(children).ptr)),
                      Tail(children))

\* do_hash(hasher, &ThinEqNode): Hash for ThinEqNode, lines 31-42.
NodeHash(seed, h, a) == HashChildren(h, Mix(seed, h[a].kind), h[a].children)

\* The hash Builder::token computes for its lookup, lines 139-145:
\* kind.hash, then <str as Hash>::hash of the text.
TokenLookupHash(seed, kind, text) == HashStr(Mix(seed, kind), text)

\* do_hash(hasher, &Arc<Token>): Hash for Token, token.rs lines 48-53:
\* kind.hash, then <[u8] as Hash>::hash of the text bytes.
TokenHash(seed, h, a) == HashSlice(Mix(seed, h[a].kind), h[a].text)

\* The rehash closures |x| do_hash(hasher, x) as functions of the handle.
NodeHasherOf(seed, h) ==
    [a \in DOMAIN h |-> IF h[a].tag = "node" THEN NodeHash(seed, h, a) ELSE 0]
TokenHasherOf(seed, h) ==
    [a \in DOMAIN h |-> IF h[a].tag = "token" THEN TokenHash(seed, h, a) ELSE 0]

-----------------------------------------------------------------------------
(* Builder, builder.rs lines 51-195.                                        *)

\* Builder::size
Size(ns, ts) == TableLen(ns) + TableLen(ts)

\* Builder::token, lines 136-158.
BuilderToken(seed, h, ts, kind, text) ==
    LET hash == TokenLookupHash(seed, kind, text)
        matching == {a \in Stored(ts) : h[a].kind = kind /\ h[a].text = text}
        index == Find(ts, hash, matching)
    IN  IF index # NotFound
        THEN [heap |-> ArcClone(h, Bucket(ts, index)), table |-> ts,
              result |-> Bucket(ts, index), hit |-> TRUE]
        ELSE LET a == Alloc(h)
                 h1a == [h EXCEPT ![a] = TokenNew(kind, text)]
             IN  [heap |-> ArcClone(h1a, a),
                  table |-> Insert(ts, hash, a, TokenHasherOf(seed, h1a)),
                  result |-> a, hit |-> FALSE]

\* Builder::cache_node, lines 120-133, on the candidate Node::new wrote at
\* address n: a hit returns a clone of the stored handle and the candidate
\* is dropped on return; a miss stores the candidate.
CacheNode(seed, h, ns, n) ==
    LET hash == NodeHash(seed, h, n)
        matching == {a \in Stored(ns) : ThinEq(h, a, n)}
        index == Find(ns, hash, matching)
    IN  IF index # NotFound
        THEN [heap |-> DropNode(ArcClone(h, Bucket(ns, index)), n), table |-> ns,
              result |-> Bucket(ns, index), hit |-> TRUE]
        ELSE [heap |-> ArcClone(h, n),
              table |-> Insert(ns, hash, n, NodeHasherOf(seed, h)),
              result |-> n, hit |-> FALSE]

\* Builder::node / node_packed, lines 98-114: Node::new, then cache_node.
\* The children are handles the caller gives away (clones of handles held).
BuilderNode(seed, h, ns, kind, children, overflow_checks) ==
    LET n == Alloc(h)
        made == NodeAlloc(h, kind, children, overflow_checks)
        h1a == [CloneAll(h, children) EXCEPT ![n] = made.cell]
    IN  IF made.fault
        THEN [heap |-> ChildrenWriterDrop(CloneAll(h, made.written), made.written),
              table |-> ns, result |-> 0, hit |-> FALSE, fault |-> TRUE]
        ELSE [fault |-> FALSE] @@ CacheNode(seed, h1a, ns, n)

\* The sweep with the predicate read the other way round (entries for which
\* it is TRUE are removed): the entries still in use leave the cache.
RECURSIVE DrainFilterRetained(_, _, _, _)
DrainFilterRetained(h, t, i, removed) ==
    IF i > t.bucket_mask THEN [heap |-> h, table |-> t, removed |-> removed]
    ELSE IF ~IsFull(Ctrl(t, i)) \/ h[Bucket(t, i)].rc <= 1
         THEN DrainFilterRetained(h, t, i + 1, removed)
         ELSE DrainFilterRetained(DropHandle(h, Bucket(t, i)), Erase(t, i),
                                  i + 1, TRUE)

\* The sweep that takes an entry to be in use only when its count is over 2:
\* an entry with a single holder besides the pool is erased.
RECURSIVE DrainFilterOverTwo(_, _, _, _)
DrainFilterOverTwo(h, t, i, removed) ==
    IF i > t.bucket_mask THEN [heap |-> h, table |-> t, removed |-> removed]
    ELSE IF ~IsFull(Ctrl(t, i)) \/ h[Bucket(t, i)].rc > 2
         THEN DrainFilterOverTwo(h, t, i + 1, removed)
         ELSE DrainFilterOverTwo(DropHandle(h, Bucket(t, i)), Erase(t, i), i + 1, TRUE)

\* HashMap::drain_filter(|k, ()| Arc::strong_count(k) > 1).any(|_| true),
\* lines 165 and 169: the buckets are visited in order; an entry whose count
\* is 1 when it is visited is erased and its handle dropped before the next
\* bucket is looked at (`any` stops at the first one, the DrainFilter's drop
\* visits the rest).
RECURSIVE DrainFilter(_, _, _, _)
DrainFilter(h, t, i, removed) ==
    IF i > t.bucket_mask THEN [heap |-> h, table |-> t, removed |-> removed]
    ELSE IF ~IsFull(Ctrl(t, i)) \/ h[Bucket(t, i)].rc > 1
         THEN DrainFilter(h, t, i + 1, removed)
         ELSE DrainFilter(DropHandle(h, Bucket(t, i)), Erase(t, i), i + 1, TRUE)

\* Builder::turn_node_gc, lines 162-166.
TurnNodeGc(h, ns) == DrainFilter(h, ns, 0, FALSE)

\* The token sweep that removes the tokens still in use.
TurnTokenGcInUse(h, ts) == DrainFilterRetained(h, ts, 0, FALSE)

\* Builder::turn_token_gc, lines 168-170.
TurnTokenGc(h, ts) == DrainFilter(h, ts, 0, FALSE)

\* turn_gc with a short-circuit `||`: the token sweep is skipped when the
\* node sweep removed something.
TurnGcShortCircuit(h, ns, ts) ==
    LET rn == TurnNodeGc(h, ns)
        rt == IF rn.removed THEN [heap |-> rn.heap, table |-> ts, removed |-> FALSE]
              ELSE TurnTokenGc(rn.heap, ts)
    IN  [heap |-> rt.heap, nodes |-> rn.table, tokens |-> rt.table,
         removed |-> rn.removed \/ rt.removed]

\* Builder::turn_gc, lines 176-180.
TurnGc(h, ns, ts) ==
    LET rn == TurnNodeGc(h, ns)
        rt == TurnTokenGc(rn.heap, ts)
    IN  [heap |-> rt.heap, nodes |-> rn.table, tokens |-> rt.table,
         removed |-> rn.removed \/ rt.removed]

\* The node loop left after its first sweep.
NodeGcOnce(h, ns) == TurnNodeGc(h, ns)

\* while self.turn_node_gc() { continue; }
RECURSIVE NodeGcFixpoint(_, _)
NodeGcFixpoint(h, ns) ==
    LET r == TurnNodeGc(h, ns)
    IN  IF r.removed THEN NodeGcFixpoint(r.heap, r.table) ELSE r

\* gc with the token sweep in front of the node fixpoint.
GcTokensFirst(h, ns, ts) ==
    LET rt == TurnTokenGc(h, ts)
        rn == NodeGcFixpoint(rt.heap, ns)
        again == TurnTokenGc(rn.heap, rt.table)
    IN  [heap |-> rn.heap, nodes |-> rn.table, tokens |-> rt.table,
         asserted |-> ~again.removed]

\* gc as one turn_gc: the node sweep is not repeated to a fixpoint.
GcSingleTurn(h, ns, ts) ==
    LET rn == TurnNodeGc(h, ns)
        rt == TurnTokenGc(rn.heap, ts)
        again == TurnTokenGc(rt.heap, rt.table)
    IN  [heap |-> rt.heap, nodes |-> rn.table, tokens |-> rt.table,
         asserted |-> ~again.removed]

\* Builder::gc, lines 187-195; `asserted` is the value the debug_assert
\* checks (the second token sweep removes nothing).
Gc(h, ns, ts) ==
    LET rn == NodeGcFixpoint(h, ns)
        rt == TurnTokenGc(rn.heap, ts)
        again == TurnTokenGc(rt.heap, rt.table)
    IN  [heap |-> rt.heap, nodes |-> rn.table, tokens |-> rt.table,
         asserted |-> ~again.removed]

-----------------------------------------------------------------------------
(* The layout specification: Node::new and Node::index_of_offset as pure    *)
(* functions of their inputs.  The build profile (overflow checks on / off) *)
(* and the standard library's binary search are fixed for one run.  The     *)
(* children are handles to already built elements of the given lengths: an  *)
(* empty token or zero-child node, a one-byte token, and two long texts     *)
(* (Token::new accepts any length that fits a u32).                         *)

MaxFanout == 3        \* children per Node::new call of the layout specification

HalfRange == LimbMod \div 2
SampleLens == {TsZero, TS(0, 1), TS(HalfRange, 0), TS(LimbMod - 1, LimbMod - 1)}
ProbeOffsets == SampleLens \cup {TS(0, 2), TS(HalfRange, 1)}

NoNode == [state |-> "none", input |-> <<>>,
           node |-> [fault |-> FALSE, kind |-> 0, children_len |-> 0,
                     text_len |-> TsZero, children |-> <<>>]]
NoProbe == [called |-> FALSE, offset |-> TsZero,
            result |-> [fault |-> FALSE, index |-> 0,
                        fallback |-> FALSE, underflow |-> FALSE]]
NoCall == [op |-> "none", result |-> 0, hit |-> FALSE, size_before |-> 0]
\* TreeBuilder::new(), tree_builder.rs lines 25-27: nothing open, no children.
\* starts and finishes count the completed start_node(_at) and finish_node(_at)
\* calls of the run.
NoTree == [stack |-> <<>>, children |-> <<>>, op |-> "new", fault |-> FALSE,
           result |-> 0, starts |-> 0, finishes |-> 0]
\* No second TreeBuilder yet: phase "none".
NoShadow == [phase |-> "none", checkpoint |-> 0, kind |-> 0, depth |-> 0,
             world |-> [heap |-> EmptyHeap, nodes |-> RawTableNew,
                        tokens |-> RawTableNew, tb |-> NoTree]]
\* Option::None of an iterator, and no iterator made yet.
NoItem == [some |-> FALSE, index |-> 0, ptr |-> 0, sound |-> TRUE]
NoIter == [used |-> FALSE,
           inner |-> [front |-> 0, back |-> 0, full_align |-> TRUE],
           fronts |-> <<>>, backs |-> <<>>, none |-> FALSE, item |-> NoItem]
NoReplay == [script |-> <<>>, pc |-> 1, pass |-> "none", mode |-> "same",
             root |-> 0, size |-> 0]
\* No thread is dropping anything.
NoDrop == [threads |-> <<>>, before |-> <<>>]
\* Nothing was deserialized.
NoSerde == [phase |-> "none", format |-> "none", hint |-> FALSE, input |-> <<>>,
            result |-> 0, err |-> FALSE, again |-> 0]

InitNode ==
    /\ heap = EmptyHeap
    /\ ext = [a \in Addrs |-> 0]
    /\ nodes = RawTableNew
    /\ tokens = RawTableNew
    /\ hasher = 0
    /\ env \in [overflow_checks : BOOLEAN, binary_search : BinarySearchImpls]
    /\ last = NoCall
    /\ nd = NoNode
    /\ probe = NoProbe
    /\ tb = NoTree
    /\ sh = NoShadow
    /\ it = NoIter
    /\ rp = NoReplay
    /\ dr = NoDrop
    /\ de = NoSerde

\* Node::new(kind, children): a panic leaves no node behind.
BuildNode(kind, children) ==
    LET n == NodeNew(kind, children, env.overflow_checks)
    IN  /\ nd' = [state |-> IF n.fault THEN "fault" ELSE "built",
                  input |-> children,
                  node |-> IF n.fault THEN NoNode.node ELSE n]
        /\ probe' = NoProbe
        /\ UNCHANGED <<heap, ext, nodes, tokens, hasher, env, last, tb, sh, it, rp, dr, de>>

\* nd.index_of_offset(offset)
CallIndexOfOffset(offset) ==
    /\ nd.state = "built"
    /\ probe' = [called |-> TRUE, offset |-> offset,
                 result |-> IndexOfOffset(nd.node, offset, env.binary_search,
                                          env.overflow_checks)]
    /\ UNCHANGED <<heap, ext, nodes, tokens, hasher, env, last, nd, tb, sh, it, rp, dr, de>>

NextNode ==
    \/ \E kind \in Kinds :
         \E lens \in SeqsUpTo(SampleLens, MaxFanout) :
            BuildNode(kind, [i \in 1..Len(lens) |-> Elem(i, lens[i])])
    \/ \E offset \in ProbeOffsets : CallIndexOfOffset(offset)

SpecNode == InitNode /\ [][NextNode]_vars

-----------------------------------------------------------------------------
(* The Builder specification: one Builder, a user who holds handles, calls  *)
(* token / node / gc / turn_gc and drops handles.  env fixes what the user  *)
(* draws from; hasher is the seed the Builder's RandomState was made with.  *)

MaxSeed == 1          \* seeds 0..MaxSeed of the Builder's RandomState
TextAlphabet == {97}
Texts == SeqsUpTo(TextAlphabet, MaxTextLen)
Seeds == 0..MaxSeed

BuilderEnv ==
    [kinds |-> Kinds, token_kinds |-> Kinds, texts |-> Texts,
     max_nodes |-> MaxNodeObjs,
     max_tokens |-> MaxTokenObjs, max_children |-> MaxChildren,
     overflow_checks |-> TRUE,
     binary_search |-> "branchless"]

InitWith(e, seeds) ==
    /\ heap = EmptyHeap
    /\ ext = [a \in Addrs |-> 0]
    /\ nodes = RawTableNew
    /\ tokens = RawTableNew
    /\ hasher \in seeds
    /\ env = e
    /\ last = NoCall
    /\ nd = NoNode
    /\ probe = NoProbe
    /\ tb = NoTree
    /\ sh = NoShadow
    /\ it = NoIter
    /\ rp = NoReplay
    /\ dr = NoDrop
    /\ de = NoSerde

Init == InitWith(BuilderEnv, Seeds)

Held == {a \in Addrs : ext[a] > 0}
Cached == Stored(nodes) \cup Stored(tokens)

\* Tokens of this Builder (every live token that another Builder did not make).
OwnTokens == LiveTokens(heap) \cap Stored(tokens)

\* The user keeps a returned handle, unless MaxExt handles to the same
\* allocation are held already: then the new one is dropped at once.
Keep(h, a) == IF ext[a] < MaxExt THEN h ELSE DropHandle(h, a)

\* builder.token(kind, text)
CallToken(kind, text) ==
    LET r == BuilderToken(hasher, heap, tokens, kind, text)
    IN  /\ Cardinality(LiveTokens(r.heap)) <= env.max_tokens
        /\ heap' = Keep(r.heap, r.result)
        /\ tokens' = r.table
        /\ ext' = [ext EXCEPT ![r.result] = IF @ < MaxExt THEN @ + 1 ELSE @]
        /\ last' = [op |-> "token", result |-> r.result, hit |-> r.hit,
                    size_before |-> Size(nodes, tokens)]
        /\ UNCHANGED <<nodes, hasher, env, nd, probe, tb, sh, it, rp, dr, de>>

\* Builder::new().token(kind, text): a token another Builder interned; that
\* Builder is dropped, the user keeps the handle.
ForeignToken(kind, text) ==
    LET a == Alloc(heap)
    IN  /\ Cardinality(LiveTokens(heap)) < env.max_tokens
        /\ heap' = [heap EXCEPT ![a] = TokenNew(kind, text)]
        /\ ext' = [ext EXCEPT ![a] = 1]
        /\ last' = [op |-> "foreign", result |-> a, hit |-> FALSE,
                    size_before |-> Size(nodes, tokens)]
        /\ UNCHANGED <<nodes, tokens, hasher, env, nd, probe, tb, sh, it, rp, dr, de>>

\* builder.node(kind, children) with clones of handles the user holds.
CallNode(kind, children) ==
    LET r == BuilderNode(hasher, heap, nodes, kind, children, env.overflow_checks)
    IN  /\ ~r.fault
        /\ Cardinality(LiveNodes(r.heap)) <= env.max_nodes
        /\ heap' = Keep(r.heap, r.result)
        /\ nodes' = r.table
        /\ ext' = [ext EXCEPT ![r.result] = IF @ < MaxExt THEN @ + 1 ELSE @]
        /\ last' = [op |-> "node", result |-> r.result, hit |-> r.hit,
                    size_before |-> Size(nodes, tokens)]
        /\ UNCHANGED <<tokens, hasher, env, nd, probe, tb, sh, it, rp, dr, de>>

\* The user drops one handle.
DropExt(a) ==
    /\ ext[a] > 0
    /\ heap' = DropHandle(heap, a)
    /\ ext' = [ext EXCEPT ![a] = @ - 1]
    /\ last' = [op |-> "drop", result |-> 0, hit |-> FALSE,
                size_before |-> Size(nodes, tokens)]
    /\ UNCHANGED <<nodes, tokens, hasher, env, nd, probe, tb, sh, it, rp, dr, de>>

\* builder.gc()
CallGc ==
    LET r == Gc(heap, nodes, tokens)
    IN  /\ heap' = r.heap
        /\ nodes' = r.nodes
        /\ tokens' = r.tokens
        /\ last' = [op |-> "gc", result |-> 0, hit |-> r.asserted,
                    size_before |-> Size(nodes, tokens)]
        /\ UNCHANGED <<ext, hasher, env, nd, probe, tb, sh, it, rp, dr, de>>

\* builder.turn_gc()
CallTurnGc ==
    LET r == TurnGc(heap, nodes, tokens)
    IN  /\ heap' = r.heap
        /\ nodes' = r.nodes
        /\ tokens' = r.tokens
        /\ last' = [op |-> "turn_gc", result |-> 0, hit |-> r.removed,
                    size_before |-> Size(nodes, tokens)]
        /\ UNCHANGED <<ext, hasher, env, nd, probe, tb, sh, it, rp, dr, de>>

Next ==
    \/ \E kind \in env.token_kinds : \E text \in env.texts : CallToken(kind, text)
    \/ \E kind \in env.kinds :
         \E children \in SeqsUpTo(Held, env.max_children) : CallNode(kind, children)
    \/ \E a \in Addrs : DropExt(a)
    \/ CallGc
    \/ CallTurnGc

Spec == Init /\ [][Next]_vars

-----------------------------------------------------------------------------
(* The token specification: token() calls and drops only, on more tokens.   *)

MaxTokTokens == 3     \* live tokens in the token specification

TokEnv ==
    [kinds |-> Kinds, token_kinds |-> Kinds, texts |-> Texts, max_nodes |-> 0,
     max_tokens |-> MaxTokTokens, max_children |-> 0,
     overflow_checks |-> TRUE, binary_search |-> "branchless"]

InitTok == InitWith(TokEnv, Seeds)

NextTok ==
    \/ \E kind \in env.token_kinds : \E text \in env.texts : CallToken(kind, text)
    \/ \E a \in Addrs : DropExt(a)

SpecTok == InitTok /\ [][NextTok]_vars

-----------------------------------------------------------------------------
(* The foreign-leaf specification: the user also holds tokens that another  *)
(* Builder interned, and builds nodes over both.                            *)

MaxForeignTokens == 2 \* live tokens in the foreign-leaf specification

ForeignEnv ==
    [kinds |-> {0}, token_kinds |-> {0}, texts |-> {<<97>>},
     max_nodes |-> MaxNodeObjs,
     max_tokens |-> MaxForeignTokens, max_children |-> MaxChildren,
     overflow_checks |-> TRUE, binary_search |-> "branchless"]

InitForeign == InitWith(ForeignEnv, Seeds)

NextForeign ==
    \/ \E kind \in env.token_kinds : \E text \in env.texts : CallToken(kind, text)
    \/ \E kind \in env.token_kinds : \E text \in env.texts : ForeignToken(kind, text)
    \/ \E kind \in env.kinds :
         \E children \in SeqsUpTo(Held, env.max_children) : CallNode(kind, children)
    \/ \E a \in Addrs : DropExt(a)

SpecForeign == InitForeign /\ [][NextForeign]_vars

-----------------------------------------------------------------------------
(* The probe specification: nodes over nodes only, of two kinds, so that    *)
(* the node table holds several entries of one kind in one probe window.    *)

MaxProbeNodes == 3    \* live nodes in the probe specification

ProbeEnv ==
    [kinds |-> Kinds, token_kinds |-> {0}, texts |-> {<<97>>},
     max_nodes |-> MaxProbeNodes,
     max_tokens |-> 0, max_children |-> MaxChildren,
     overflow_checks |-> TRUE, binary_search |-> "branchless"]

InitProbe == InitWith(ProbeEnv, Seeds)

NextProbe ==
    \/ \E kind \in env.kinds :
         \E children \in SeqsUpTo(Held, env.max_children) : CallNode(kind, children)
    \/ \E a \in Addrs : DropExt(a)
    \/ CallGc

SpecProbe == InitProbe /\ [][NextProbe]_vars

\* Every strong count is the number of handles that exist: the user's, the
\* pool's and the child slots of live nodes.
SlotsTo(a) ==
    SumSeq([n \in Addrs |->
        Cardinality({i \in 1..Len(heap[n].children) : heap[n].children[i].ptr = a})])

CountsAreHandles ==
    \A a \in Addrs :
        heap[a].rc = ext[a] + (IF a \in Cached THEN 1 ELSE 0) + SlotsTo(a)

-----------------------------------------------------------------------------
(* Properties of the layout specification.                                  *)

InputLens == [i \in 1..Len(nd.input) |-> nd.input[i].len]

\* The exact sum of the children's lengths fits a TextSize.
SumFits == WideSum(InputLens).hi < LimbMod

\* C5: every built node n satisfies n.len() = sum of len() over its
\* children (the exact sum); a zero-child node has len() = 0.
C5_LenIsSumOfChildren ==
    nd.state = "built" =>
        /\ nd.node.text_len = WideSum(InputLens)
        /\ (nd.input = <<>> => nd.node.text_len = TsZero)

\* C6: for every built node and every child index i, the offset stored in
\* slot i equals the exact sum of len() of the children 0..i-1; so offsets
\* start at 0 and are non-decreasing.
C6_OffsetsArePrefixSums ==
    nd.state = "built" =>
        /\ \A i \in 1..Len(nd.node.children) :
              ElementOffset(nd.node, i - 1) = WideSum(SubSeq(InputLens, 1, i - 1))
        /\ \A i \in 1..(Len(nd.node.children) - 1) :
              TsLe(ElementOffset(nd.node, i - 1), ElementOffset(nd.node, i))

\* C7: for every node n and offset o with 0 <= o < n.len(),
\* n.index_of_offset(o) returns an index i with
\* children[i].offset <= o < children[i].offset + children[i].len(),
\* zero-length children included.  Stated here for the nodes whose exact
\* sum fits a TextSize only, which the claim's quantifier includes.
C7_IndexContainsOffset ==
    (probe.called /\ SumFits /\ TsLt(probe.offset, nd.node.text_len)) =>
        LET i == probe.result.index
        IN  /\ ~probe.result.fault
            /\ i \in 0..(Len(nd.node.children) - 1)
            /\ TsLe(ElementOffset(nd.node, i), probe.offset)
            /\ TsLt(probe.offset, WideAdd(ElementOffset(nd.node, i), InputLens[i + 1]))

\* C8: index_of_offset(o) faults for every o >= n.len() (hence for every o
\* on a node of length 0), and for every o < n.len() the fallback
\* `index - 1` is never evaluated with index = 0.
C8_FaultsOutsideNoUnderflow ==
    probe.called =>
        /\ (~TsLt(probe.offset, nd.node.text_len) => probe.result.fault)
        /\ (TsLt(probe.offset, nd.node.text_len) =>
               /\ ~probe.result.underflow
               /\ ~probe.result.fault)

\* The fallback ran on an in-range offset of a node that has a zero-length
\* child in front of a non-empty one.
C8_Witness ==
    /\ probe.called
    /\ TsLt(probe.offset, nd.node.text_len)
    /\ probe.result.fallback
    /\ ~probe.result.fault
    /\ \E i \in 1..Len(InputLens) : InputLens[i] = TsZero

-----------------------------------------------------------------------------
(* Properties of the Builder.  A property of a call is stated for every     *)
(* call the user can make in the current state: the call is applied to the  *)
(* state and its outcome examined.                                          *)

ChildPtrs(h, a) == [i \in 1..Len(h[a].children) |-> h[a].children[i].ptr]

\* The live nodes with exactly this kind and this child-identity sequence.
ExactNodes(h, kind, children) ==
    {a \in LiveNodes(h) : h[a].kind = kind /\ ChildPtrs(h, a) = children}

NodeCall(kind, children) ==
    BuilderNode(hasher, heap, nodes, kind, children, env.overflow_checks)

NodeInputs == SeqsUpTo(Held, env.max_children)

\* C1: node(k, cs), called while a node this Builder returned for the same
\* kind and a pointer-identical child sequence of the same length is alive,
\* returns that very handle and leaves size() unchanged.
C1_SameKeySameHandle ==
    \A kind \in env.kinds : \A children \in NodeInputs :
        LET r == NodeCall(kind, children)
            twins == ExactNodes(heap, kind, children)
        IN  (twins # {} /\ ~r.fault) =>
                /\ r.result \in twins
                /\ Size(r.table, tokens) = Size(nodes, tokens)

\* C2: the node returned by node(k, cs) has kind k, exactly |cs| children
\* and its i-th child is cs[i], in every cache state (a hit is taken only on
\* an entry whose whole key equals the probe's).
C2_HitOnlyOnExactKey ==
    \A kind \in env.kinds : \A children \in NodeInputs :
        LET r == NodeCall(kind, children)
        IN  ~r.fault =>
                /\ r.heap[r.result].tag = "node"
                /\ r.heap[r.result].kind = kind
                /\ ChildPtrs(r.heap, r.result) = children

\* C3: token(k, s) returns the handle an earlier token(k', s') of this
\* Builder returned if and only if k = k' and s = s' (no gc in between); a
\* hit leaves size() unchanged and a miss increases it by exactly 1.
C3_TokenInterning ==
    \A kind \in env.token_kinds : \A text \in env.texts :
        LET r == BuilderToken(hasher, heap, tokens, kind, text)
            twins == {a \in OwnTokens : heap[a].kind = kind /\ heap[a].text = text}
        IN  /\ twins # {} =>
                /\ r.result \in twins
                /\ Size(nodes, r.table) = Size(nodes, tokens)
            /\ twins = {} =>
                /\ r.result \notin OwnTokens
                /\ Size(nodes, r.table) = Size(nodes, tokens) + 1

\* C4: with c1 and c2 two distinct allocations of equal kind and content
\* and node(k, [c1]) built, node(k, [c2]) returns another, new handle and
\* both nodes are cached (size() has grown by one for each).
C4_IdentityNotStructure ==
    \A kind \in env.kinds : \A c2 \in Held \cap LiveTokens(heap) :
        \A n1 \in LiveNodes(heap) :
            LET r == NodeCall(kind, <<c2>>)
                c1 == heap[n1].children[1].ptr
            IN  (/\ heap[n1].kind = kind
                 /\ Len(heap[n1].children) = 1
                 /\ c1 # c2
                 /\ heap[c1].tag = "token"
                 /\ heap[c1].kind = heap[c2].kind
                 /\ heap[c1].text = heap[c2].text
                 /\ ExactNodes(heap, kind, <<c2>>) = {}) =>
                    /\ r.result # n1
                    /\ r.result \notin LiveNodes(heap)
                    /\ {n1, r.result} \subseteq Stored(r.table)
                    /\ Size(r.table, tokens) = Size(nodes, tokens) + 1

\* Everything reachable from a handle held outside the pool.
RECURSIVE ReachFrom(_)
ReachFrom(S) ==
    LET next == S \cup UNION {{heap[a].children[i].ptr : i \in 1..Len(heap[a].children)}
                                : a \in S}
    IN  IF next = S THEN S ELSE ReachFrom(next)

Reachable == ReachFrom(Held)

GcCall == Gc(heap, nodes, tokens)

\* C9: once every handle outside the pool has been dropped, one gc() leaves
\* size() = 0, whatever the depth and sharing of the cached trees.
C9_GcEmptiesUnreferencedCache ==
    Held = {} => Size(GcCall.nodes, GcCall.tokens) = 0

\* gc() ran with no handle left outside the pool on a cache that held a
\* node over a node over a token.
C9_Witness ==
    /\ last.op = "gc"
    /\ Held = {}
    /\ last.size_before >= 3
    /\ Size(nodes, tokens) = 0

\* C10: after gc() the cache holds exactly the entries that were cached
\* before and are reachable from a handle held outside the pool.
C10_GcRemovesExactlyUnreachable ==
    /\ Stored(GcCall.nodes) \cup Stored(GcCall.tokens) = Cached \cap Reachable
    /\ \A a \in Cached \cap Reachable : GcCall.heap[a].tag # "free"
    /\ GcCall.asserted

\* gc() removed one of three cached entries (outer dropped, inner still
\* held) and kept the other two.
C10_Witness ==
    /\ last.op = "gc"
    /\ last.size_before = 3
    /\ Size(nodes, tokens) = 2
    /\ \E a \in Held : heap[a].tag = "node" /\ Len(heap[a].children) = 1

-----------------------------------------------------------------------------
(* Properties of gc() and turn_gc().                                        *)

\* while builder.turn_gc() {}
RECURSIVE TurnGcUntilStable(_, _, _)
TurnGcUntilStable(h, ns, ts) ==
    LET r == TurnGc(h, ns, ts)
    IN  IF r.removed THEN TurnGcUntilStable(r.heap, r.nodes, r.tokens) ELSE r

\* C11: from any reachable state gc() leaves the same cached nodes and
\* tokens as turn_gc() repeated until it returns false; after gc() no cached
\* entry has strong count 1, a following turn_gc() returns false and a
\* second gc() changes nothing.
C11_GcEqualsTurnsUntilStable ==
    LET g == GcCall
        t == TurnGcUntilStable(heap, nodes, tokens)
        turn == TurnGc(g.heap, g.nodes, g.tokens)
        g2 == Gc(g.heap, g.nodes, g.tokens)
    IN  /\ Stored(g.nodes) = Stored(t.nodes)
        /\ Stored(g.tokens) = Stored(t.tokens)
        /\ \A a \in Stored(g.nodes) \cup Stored(g.tokens) : g.heap[a].rc > 1
        /\ ~turn.removed
        /\ g2.heap = g.heap /\ g2.nodes = g.nodes /\ g2.tokens = g.tokens

\* gc() removed a node and the node below it in one call and kept the
\* token, which is still held.
C11_Witness ==
    /\ last.op = "gc"
    /\ last.size_before = 3
    /\ Size(nodes, tokens) = 1
    /\ TableLen(tokens) = 1

TurnCall == TurnGc(heap, nodes, tokens)

\* The nodes that hold a handle to a.
Parents(h, a) ==
    {n \in LiveNodes(h) : \E i \in 1..Len(h[n].children) : h[n].children[i].ptr = a}

\* C12: one turn_gc() sweeps the nodes and then the tokens (also when a node
\* was removed), removes every entry whose strong count is 1 when it is
\* examined and no entry whose count is greater then, and returns true
\* exactly when it removed something.
C12_TurnSweepsNodesThenTokens ==
    LET r == TurnCall
        swept == TurnNodeGc(heap, nodes)
        kept == Stored(r.nodes) \cup Stored(r.tokens)
        gone == Cached \ kept
    IN  /\ kept \subseteq Cached
        /\ \A a \in Cached : heap[a].rc = 1 => a \in gone
        /\ \A a \in gone : ext[a] = 0 /\ Parents(heap, a) \subseteq gone
        /\ Stored(r.tokens) = {a \in Stored(tokens) : swept.heap[a].rc > 1}
        /\ r.removed <=> gone # {}

\* turn_gc() removed a node and, in the same turn, the token only that node
\* had kept alive.
C12_Witness ==
    /\ last.op = "turn_gc"
    /\ last.hit
    /\ last.size_before = 2
    /\ Size(nodes, tokens) = 0

-----------------------------------------------------------------------------
(* TreeBuilder, tree_builder.rs: a Builder cache, the stack of open nodes   *)
(* (kind, first_child) and the buffer of children added so far.  Every      *)
(* method is an operator on a world: the heap, the cache's two tables and   *)
(* the builder's own fields.  A handle in the buffer is one strong count.   *)

MaxStarts == 2        \* start_node / start_node_at calls of one run
MaxBuffer == 2        \* elements the user lets the child buffer hold
MaxTreeNodes == 2     \* live nodes of the TreeBuilder specification
MaxTreeTokens == 2    \* live tokens of the TreeBuilder specification

World(h, ns, ts, t) == [heap |-> h, nodes |-> ns, tokens |-> ts, tb |-> t]

Frame(kind, first_child) == [kind |-> kind, first_child |-> first_child]

\* A panic unwinds with the fields as they are when it is raised.
Panic(w, op) == [w EXCEPT !.tb.op = op, !.tb.fault = TRUE, !.tb.result = 0]
Returns(w, op) == [w EXCEPT !.tb.op = op, !.tb.fault = FALSE, !.tb.result = 0]

RECURSIVE DropHandles(_, _)
DropHandles(h, handles) ==
    IF handles = <<>> THEN h
    ELSE DropHandles(DropHandle(h, Head(handles)), Tail(handles))

\* Builder::node_packed, builder.rs lines 108-114, on handles that are moved
\* in (a Drain of the buffer): Node::new, then cache_node.  If Node::new
\* panics, the handles not yet written are dropped by the unwinding and the
\* written ones are left to Drop for ChildrenWriter.
NodePacked(seed, h, ns, kind, handles, overflow_checks) ==
    LET n == Alloc(h)
        made == NodeAlloc(h, kind, handles, overflow_checks)
    IN  IF made.fault
        THEN [heap |-> DropHandles(ChildrenWriterDrop(h, made.written),
                                   SubSeq(handles, Len(made.written) + 1, Len(handles))),
              table |-> ns, result |-> 0, hit |-> FALSE, fault |-> TRUE]
        ELSE [fault |-> FALSE] @@ CacheNode(seed, [h EXCEPT ![n] = made.cell], ns, n)

\* TreeBuilder::add, lines 40-43, with a handle that is moved in.
TbAdd(w, a) == [w EXCEPT !.tb.children = Append(@, a)]

\* TreeBuilder::token, lines 46-49: r is what self.cache.token returned.
TbTokenAdd(w, r) ==
    Returns(TbAdd([w EXCEPT !.heap = r.heap, !.tokens = r.table], r.result),
            "token")

TbToken(seed, w, kind, text) ==
    TbTokenAdd(w, BuilderToken(seed, w.heap, w.tokens, kind, text))

\* TreeBuilder::start_node, lines 63-66.
TbStartNode(w, kind) ==
    Returns([w EXCEPT !.tb.stack = Append(@, Frame(kind, Len(w.tb.children))),
                      !.tb.starts = @ + 1], "start_node")

\* The tail of finish_node and finish_node_at (lines 73-76, 186-189) once the
\* frame is popped: children[first..end) is drained, node_packed interns a
\* node of them, and add pushes the handle onto the buffer.  rest is what
\* the drain leaves in the buffer, r what node_packed returned.
TbWrapAdd(w, op, rest, r) ==
    IF r.fault
    THEN Panic([w EXCEPT !.heap = r.heap, !.nodes = r.table,
                         !.tb.children = rest], op)
    ELSE Returns(TbAdd([w EXCEPT !.heap = r.heap, !.nodes = r.table,
                                 !.tb.children = rest,
                                 !.tb.finishes = @ + 1], r.result), op)

\* The tail that drains the buffer from its start instead of from the
\* frame's first child.
TbWrapWholeBuffer(seed, w, op, kind, first, end, overflow_checks) ==
    TbWrapAdd(w, op,
              SubSeq(w.tb.children, end + 1, Len(w.tb.children)),
              NodePacked(seed, w.heap, w.nodes, kind,
                         SubSeq(w.tb.children, 1, end), overflow_checks))

TbWrap(seed, w, op, kind, first, end, overflow_checks) ==
    TbWrapAdd(w, op,
              SubSeq(w.tb.children, 1, first)
                 \o SubSeq(w.tb.children, end + 1, Len(w.tb.children)),
              NodePacked(seed, w.heap, w.nodes, kind,
                         SubSeq(w.tb.children, first + 1, end), overflow_checks))

\* finish_node that treats a missing frame as a frame (Kind(0), 0) opened at
\* the start of the buffer.
TbFinishNodeImplicitRoot(seed, w, overflow_checks) ==
    LET stack == w.tb.stack
        top == IF stack = <<>> THEN Frame(0, 0) ELSE stack[Len(stack)]
        popped == [w EXCEPT !.tb.stack = SubSeq(stack, 1, Len(stack) - 1)]
    IN  TbWrap(seed, popped, "finish_node", top.kind, top.first_child,
               Len(w.tb.children), overflow_checks)

\* TreeBuilder::finish_node, lines 69-77.
TbFinishNode(seed, w, overflow_checks) ==
    LET stack == w.tb.stack
        top == stack[Len(stack)]
        popped == [w EXCEPT !.tb.stack = SubSeq(stack, 1, Len(stack) - 1)]
    IN  IF stack = <<>> THEN Panic(w, "finish_node")
        ELSE TbWrap(seed, popped, "finish_node", top.kind, top.first_child,
                    Len(w.tb.children), overflow_checks)

\* start_node_at without its second assertion: a checkpoint below the open
\* frame's first child is accepted.
TbStartNodeAtUnchecked(w, checkpoint, kind) ==
    IF checkpoint > Len(w.tb.children) THEN Panic(w, "start_node_at")
    ELSE Returns([w EXCEPT !.tb.stack = Append(@, Frame(kind, checkpoint)),
                           !.tb.starts = @ + 1], "start_node_at")

\* start_node_at that ignores its checkpoint and opens the node at the end
\* of the buffer, as start_node does.
TbStartNodeAtEnd(w, checkpoint, kind) ==
    IF checkpoint > Len(w.tb.children) THEN Panic(w, "start_node_at")
    ELSE Returns([w EXCEPT !.tb.stack = Append(@, Frame(kind, Len(w.tb.children))),
                           !.tb.starts = @ + 1], "start_node_at")

\* TreeBuilder::checkpoint, lines 141-143.
TbCheckpoint(w) == Len(w.tb.children)

\* TreeBuilder::start_node_at, lines 147-162.
TbStartNodeAt(w, checkpoint, kind) ==
    LET stack == w.tb.stack
    IN  IF checkpoint > Len(w.tb.children) THEN Panic(w, "start_node_at")
        ELSE IF stack # <<>> /\ checkpoint < stack[Len(stack)].first_child
        THEN Panic(w, "start_node_at")
        ELSE Returns([w EXCEPT !.tb.stack = Append(@, Frame(kind, checkpoint)),
                               !.tb.starts = @ + 1],
                     "start_node_at")

\* finish_node_at without its second assertion: a checkpoint below the
\* popped frame's first child is accepted.
TbFinishNodeAtUnchecked(seed, w, checkpoint, overflow_checks) ==
    LET stack == w.tb.stack
        top == stack[Len(stack)]
        popped == [w EXCEPT !.tb.stack = SubSeq(stack, 1, Len(stack) - 1)]
    IN  IF checkpoint > Len(w.tb.children) THEN Panic(w, "finish_node_at")
        ELSE IF stack = <<>> THEN Panic(w, "finish_node_at")
        ELSE TbWrap(seed, popped, "finish_node_at", top.kind, top.first_child,
                    checkpoint, overflow_checks)

\* TreeBuilder::finish_node_at, lines 173-190: the second assertion is made
\* after the frame is popped.
TbFinishNodeAt(seed, w, checkpoint, overflow_checks) ==
    LET stack == w.tb.stack
        top == stack[Len(stack)]
        popped == [w EXCEPT !.tb.stack = SubSeq(stack, 1, Len(stack) - 1)]
    IN  IF checkpoint > Len(w.tb.children) THEN Panic(w, "finish_node_at")
        ELSE IF stack = <<>> THEN Panic(w, "finish_node_at")
        ELSE IF checkpoint < top.first_child THEN Panic(popped, "finish_node_at")
        ELSE TbWrap(seed, popped, "finish_node_at", top.kind, top.first_child,
                    checkpoint, overflow_checks)

\* finish without its first assertion: open frames are not looked at.
TbFinishOpenFrames(w) ==
    LET buf == w.tb.children
    IN  IF Len(buf) # 1 THEN Panic(w, "finish")
        ELSE IF w.heap[buf[1]].tag # "node"
        THEN Panic([w EXCEPT !.heap = DropToken(@, buf[1]), !.tb.children = <<>>],
                   "finish")
        ELSE [Returns([w EXCEPT !.tb.children = <<>>], "finish") EXCEPT
                 !.tb.result = buf[1]]

\* finish that hands back the popped element whatever it is, without
\* into_node().unwrap().
TbFinishAnyElement(w) ==
    LET buf == w.tb.children
    IN  IF w.tb.stack # <<>> THEN Panic(w, "finish")
        ELSE IF Len(buf) # 1 THEN Panic(w, "finish")
        ELSE [Returns([w EXCEPT !.tb.children = <<>>], "finish") EXCEPT
                 !.tb.result = buf[1]]

\* TreeBuilder::finish, lines 200-204: the last element is popped before
\* into_node().unwrap() looks at it; a token is dropped by the panic.
TbFinish(w) ==
    LET buf == w.tb.children
    IN  IF w.tb.stack # <<>> THEN Panic(w, "finish")
        ELSE IF Len(buf) # 1 THEN Panic(w, "finish")
        ELSE IF w.heap[buf[1]].tag # "node"
        THEN Panic([w EXCEPT !.heap = DropToken(@, buf[1]), !.tb.children = <<>>],
                   "finish")
        ELSE [Returns([w EXCEPT !.tb.children = <<>>], "finish") EXCEPT
                 !.tb.result = buf[1]]

\* TreeBuilder::new_with(self.recycle()), lines 30-32 and 207-209: the cache
\* moves to a fresh TreeBuilder, the old stack and buffer are dropped.
TbRecycle(w) ==
    [w EXCEPT !.heap = DropHandles(@, w.tb.children),
              !.tb = [NoTree EXCEPT !.op = "new_with", !.starts = w.tb.starts,
                                    !.finishes = w.tb.finishes]]

-----------------------------------------------------------------------------
(* The TreeBuilder specification: one TreeBuilder; the user adds tokens,    *)
(* starts and finishes nodes (plainly or at a checkpoint), takes the tree   *)
(* with finish().  A panic ends the run.                                    *)

TreeEnv ==
    [kinds |-> Kinds, token_kinds |-> {0}, texts |-> Texts,
     max_nodes |-> MaxTreeNodes, max_tokens |-> MaxTreeTokens,
     max_children |-> MaxBuffer,
     overflow_checks |-> TRUE,
     binary_search |-> "branchless"]

InitTree == InitWith(TreeEnv, Seeds)

Checkpoints == 0..MaxBuffer

Now == World(heap, nodes, tokens, tb)

\* The call returns (or unwinds) with the world w.
Becomes(w) ==
    /\ heap' = w.heap
    /\ nodes' = w.nodes
    /\ tokens' = w.tokens
    /\ tb' = w.tb

Fits(w) ==
    /\ Cardinality(LiveNodes(w.heap)) <= env.max_nodes
    /\ Cardinality(LiveTokens(w.heap)) <= env.max_tokens

\* A call on the TreeBuilder that leaves the world w.
TreeCall(w) ==
    /\ ~tb.fault
    /\ Fits(w)
    /\ Becomes(w)
    /\ UNCHANGED <<ext, hasher, env, last, nd, probe, sh, it, rp, dr, de>>

\* tree.token(kind, text)
TreeToken(kind, text) ==
    /\ Len(tb.children) < MaxBuffer
    /\ TreeCall(TbToken(hasher, Now, kind, text))

\* tree.start_node(kind)
TreeStartNode(kind) ==
    /\ tb.starts < MaxStarts
    /\ TreeCall(TbStartNode(Now, kind))

\* tree.finish_node()
TreeFinishNode == TreeCall(TbFinishNode(hasher, Now, env.overflow_checks))

\* tree.start_node_at(Checkpoint(c), kind)
TreeStartNodeAt(c, kind) ==
    /\ tb.starts < MaxStarts
    /\ TreeCall(TbStartNodeAt(Now, c, kind))

\* tree.finish_node_at(Checkpoint(c))
TreeFinishNodeAt(c) ==
    TreeCall(TbFinishNodeAt(hasher, Now, c, env.overflow_checks))

\* tree.finish(): the user keeps the root.
TreeFinish ==
    LET w == TbFinish(Now)
    IN  /\ ~tb.fault
        /\ heap' = IF w.tb.fault THEN w.heap ELSE Keep(w.heap, w.tb.result)
        /\ ext' = IF w.tb.fault THEN ext
                  ELSE [ext EXCEPT ![w.tb.result] = IF @ < MaxExt THEN @ + 1 ELSE @]
        /\ nodes' = w.nodes
        /\ tokens' = w.tokens
        /\ tb' = w.tb
        /\ UNCHANGED <<hasher, env, last, nd, probe, sh, it, rp, dr, de>>

NextTree ==
    \/ \E kind \in env.token_kinds : \E text \in env.texts : TreeToken(kind, text)
    \/ \E kind \in env.kinds : TreeStartNode(kind)
    \/ TreeFinishNode
    \/ \E c \in Checkpoints : \E kind \in env.kinds : TreeStartNodeAt(c, kind)
    \/ \E c \in Checkpoints : TreeFinishNodeAt(c)
    \/ TreeFinish

SpecTree == InitTree /\ [][NextTree]_vars

-----------------------------------------------------------------------------
(* Claims about the TreeBuilder.                                            *)

Top == tb.stack[Len(tb.stack)]
Below == SubSeq(tb.stack, 1, Len(tb.stack) - 1)

\* C13: finish_node() with a non-empty frame stack pops the top frame
\* (kind, first_child) and replaces children[first_child..] by one handle to
\* the interned node of that kind whose children are exactly those elements
\* in their order; children[..first_child] and the frames below are
\* unchanged and the buffer length becomes first_child + 1.
C13_FinishNodeFrameEffect ==
    (~tb.fault /\ tb.stack # <<>>) =>
        LET w == TbFinishNode(hasher, Now, env.overflow_checks)
            first_child == Top.first_child
            node == w.tb.children[first_child + 1]
        IN  /\ ~w.tb.fault
            /\ w.tb.stack = Below
            /\ Len(w.tb.children) = first_child + 1
            /\ SubSeq(w.tb.children, 1, first_child)
                  = SubSeq(tb.children, 1, first_child)
            /\ node \in Stored(w.nodes)
            /\ w.heap[node].tag = "node"
            /\ w.heap[node].kind = Top.kind
            /\ ChildPtrs(w.heap, node)
                  = SubSeq(tb.children, first_child + 1, Len(tb.children))

\* C14: finish_node_at(c), for a top frame (kind, first_child) with
\* first_child <= c <= children.len(), wraps exactly children[first_child..c]
\* into the new node and leaves the elements that were at children[c..] as
\* later siblings of it: the buffer afterwards is the old
\* children[..first_child], then the new node, then the old children[c..].
C14_FinishNodeAtKeepsLaterSiblings ==
    (~tb.fault /\ tb.stack # <<>>) =>
        \A c \in Top.first_child..Len(tb.children) :
            LET w == TbFinishNodeAt(hasher, Now, c, env.overflow_checks)
                first_child == Top.first_child
                node == w.tb.children[first_child + 1]
            IN  /\ ~w.tb.fault
                /\ w.tb.children
                      = SubSeq(tb.children, 1, first_child) \o <<node>>
                           \o SubSeq(tb.children, c + 1, Len(tb.children))
                /\ w.heap[node].tag = "node"
                /\ w.heap[node].kind = Top.kind
                /\ ChildPtrs(w.heap, node) = SubSeq(tb.children, first_child + 1, c)

\* C15: start_node_at(c, kind) faults if c > children.len(), or if the frame
\* stack is non-empty and c is less than the top frame's first_child;
\* otherwise it pushes the frame (kind, c) and changes neither the children
\* buffer nor the cache nor the frames below.
C15_StartNodeAtChecksCheckpoint ==
    ~tb.fault =>
        \A c \in Checkpoints : \A kind \in env.kinds :
            LET w == TbStartNodeAt(Now, c, kind)
                outside == \/ c > Len(tb.children)
                           \/ tb.stack # <<>> /\ c < Top.first_child
            IN  IF outside THEN w.tb.fault
                ELSE /\ ~w.tb.fault
                     /\ w.tb.stack = Append(tb.stack, Frame(kind, c))
                     /\ w.tb.children = tb.children
                     /\ w.heap = heap /\ w.nodes = nodes /\ w.tokens = tokens

\* A frame was pushed at a checkpoint inside the open frame, with one element
\* before the checkpoint and one after it.
C15_Witness ==
    /\ tb.op = "start_node_at" /\ ~tb.fault
    /\ Len(tb.stack) = 2 /\ Len(tb.children) = 2
    /\ tb.stack[1].first_child = 0 /\ Top.first_child = 1

\* C16: finish() faults if the frame stack is non-empty or the children
\* buffer does not hold exactly one element; when it succeeds it returns that
\* element and leaves both the frame stack and the children buffer empty
\* while the Builder cache keeps all its entries, so the same TreeBuilder can
\* build another tree.
C16_FinishChecksAndResets ==
    ~tb.fault =>
        LET w == TbFinish(Now)
        IN  /\ (tb.stack # <<>> \/ Len(tb.children) # 1) => w.tb.fault
            /\ ~w.tb.fault =>
                  /\ w.tb.result = tb.children[1]
                  /\ w.heap[w.tb.result].rc >= 1
                  /\ w.tb.stack = NoTree.stack
                  /\ w.tb.children = NoTree.children
                  /\ w.nodes = nodes /\ w.tokens = tokens
                  /\ w.heap = heap

\* finish() returned a root that has a child, with tokens and nodes cached.
C16_Witness ==
    /\ tb.op = "finish" /\ ~tb.fault
    /\ tb.stack = <<>> /\ tb.children = <<>>
    /\ heap[tb.result].tag = "node" /\ Len(heap[tb.result].children) = 2
    /\ TableLen(nodes) = 2 /\ TableLen(tokens) = 2

\* C17: finish_node() called with an empty frame stack faults and leaves the
\* children buffer, the frame stack and the cache unchanged; so at every
\* point of a run the completed finish_node / finish_node_at calls do not
\* outnumber the completed start_node / start_node_at calls (the difference
\* is the number of open frames).
C17_FinishNodeNeedsOpenFrame ==
    /\ (~tb.fault /\ tb.stack = <<>>) =>
          LET w == TbFinishNode(hasher, Now, env.overflow_checks)
          IN  /\ w.tb.fault
              /\ w.tb.children = tb.children
              /\ w.tb.stack = tb.stack
              /\ w.heap = heap /\ w.nodes = nodes /\ w.tokens = tokens
    /\ tb.finishes <= tb.starts
    /\ ~tb.fault => Len(tb.stack) = tb.starts - tb.finishes

\* finish_node() panicked on an empty stack after every opened node was
\* finished.
C17_Witness ==
    /\ tb.op = "finish_node" /\ tb.fault
    /\ tb.stack = <<>> /\ Len(tb.children) = 2
    /\ tb.starts = MaxStarts /\ tb.finishes = MaxStarts

-----------------------------------------------------------------------------
(* The Pratt driver of the checkpoint example, tree_builder.rs lines        *)
(* 93-140: parse_expr over a stream of token kinds.  What is left to wrap   *)
(* is wrapped after the fact with start_node_at(start, EXPR).finish_node(). *)

ATOM == 0
PLUS == 1
MUL == 2
EXPR == 4

\* binding_power, line 97, and text_of, lines 98-100 ("atom", "+", "*").
binding_power(kind) == kind
text_of(kind) ==
    IF kind = ATOM THEN <<97, 116, 111, 109>>
    ELSE IF kind = PLUS THEN <<43>> ELSE <<42>>

RECURSIVE parse_expr(_, _, _, _)
RECURSIVE ParseLoop(_, _, _, _, _)

\* parse_expr, lines 102-106: p is the TreeBuilder's world and the tokens
\* not yet taken.
parse_expr(seed, p, bind, overflow_checks) ==
    LET start == TbCheckpoint(p.w)
        first_token == Head(p.tts)
        p1 == [w |-> TbToken(seed, p.w, first_token, text_of(first_token)),
               tts |-> Tail(p.tts)]
    IN  ParseLoop(seed, p1, bind, start, overflow_checks)

\* The loop of parse_expr, lines 107-117.
ParseLoop(seed, p, bind, start, overflow_checks) ==
    IF p.tts = <<>> THEN p
    ELSE LET power == binding_power(Head(p.tts))
             op_token == Head(p.tts)
             p1 == [w |-> TbToken(seed, p.w, op_token, text_of(op_token)),
                    tts |-> Tail(p.tts)]
             p2 == parse_expr(seed, p1, power, overflow_checks)
             p3 == [p2 EXCEPT !.w = TbFinishNode(seed, TbStartNodeAt(@, start, EXPR),
                                                 overflow_checks)]
         IN  IF power < bind THEN p
             ELSE ParseLoop(seed, p3, bind, start, overflow_checks)

\* The shape of the element at address a: kinds and token texts.
RECURSIVE Shape(_, _)
Shape(h, a) ==
    IF h[a].tag = "token" THEN [kind |-> h[a].kind, text |-> h[a].text]
    ELSE [kind |-> h[a].kind,
          children |-> [i \in 1..Len(h[a].children) |-> Shape(h, h[a].children[i].ptr)]]

-----------------------------------------------------------------------------
(* The wrapping specification.  The user builds a prefix, takes a           *)
(* checkpoint c and decides a kind; from then on a second TreeBuilder, in   *)
(* its own copy of the world, has start_node(kind) applied where the first  *)
(* has only the checkpoint, and every later call is made on both.  When the *)
(* calls made since the checkpoint are balanced the first one wraps after   *)
(* the fact (start_node_at(c, kind).finish_node()) and the second one       *)
(* calls finish_node().  From the empty builder the user may instead run    *)
(* the Pratt driver on env.tts.                                             *)

MaxWrapAddr == 12     \* addresses of the heap of the wrapping specification

WrapEnv ==
    [kinds |-> Kinds, token_kinds |-> {0}, texts |-> Texts,
     max_nodes |-> MaxTreeNodes, max_tokens |-> MaxTreeTokens,
     max_children |-> MaxBuffer, overflow_checks |-> TRUE,
     binary_search |-> "branchless",
     tts |-> <<ATOM, MUL, ATOM, PLUS, ATOM, MUL, ATOM>>]

InitWrap ==
    /\ heap = [a \in 1..MaxWrapAddr |-> FreeCell]
    /\ ext = [a \in 1..MaxWrapAddr |-> 0]
    /\ nodes = RawTableNew
    /\ tokens = RawTableNew
    /\ hasher \in Seeds
    /\ env = WrapEnv
    /\ last = NoCall
    /\ nd = NoNode
    /\ probe = NoProbe
    /\ tb = NoTree
    /\ sh = NoShadow
    /\ it = NoIter
    /\ rp = NoReplay
    /\ dr = NoDrop
    /\ de = NoSerde

\* let c = tree.checkpoint(); the second builder gets start_node(kind) here.
TakeCheckpoint(kind) ==
    /\ sh.phase = "none"
    /\ ~tb.fault
    /\ sh' = [phase |-> "run", checkpoint |-> TbCheckpoint(Now), kind |-> kind,
              depth |-> Len(tb.stack), world |-> TbStartNode(Now, kind)]
    /\ UNCHANGED <<heap, ext, nodes, tokens, hasher, env, last, nd, probe, tb, it, rp, dr, de>>

\* One call after the checkpoint, made on both builders.
RunStep(main, shadow) ==
    /\ sh.phase = "run"
    /\ ~main.tb.fault
    /\ Fits(main)
    /\ Becomes(main)
    /\ sh' = [sh EXCEPT !.world = shadow]
    /\ UNCHANGED <<ext, hasher, env, last, nd, probe, it, rp, dr, de>>

RunToken(kind, text) ==
    /\ Len(tb.children) < MaxBuffer
    /\ RunStep(TbToken(hasher, Now, kind, text),
               TbToken(hasher, sh.world, kind, text))

RunStartNode(kind) ==
    /\ tb.starts < MaxStarts
    /\ RunStep(TbStartNode(Now, kind), TbStartNode(sh.world, kind))

\* Only frames opened after the checkpoint are finished.
RunFinishNode ==
    /\ Len(tb.stack) > sh.depth
    /\ RunStep(TbFinishNode(hasher, Now, env.overflow_checks),
               TbFinishNode(hasher, sh.world, env.overflow_checks))

\* No checkpoint below c is used.
RunStartNodeAt(c, kind) ==
    /\ tb.starts < MaxStarts
    /\ c >= sh.checkpoint
    /\ RunStep(TbStartNodeAt(Now, c, kind), TbStartNodeAt(sh.world, c, kind))

RunFinishNodeAt(c) ==
    /\ Len(tb.stack) > sh.depth
    /\ RunStep(TbFinishNodeAt(hasher, Now, c, env.overflow_checks),
               TbFinishNodeAt(hasher, sh.world, c, env.overflow_checks))

\* tree.start_node_at(c, kind).finish_node() on the first builder,
\* finish_node() on the second.
WrapUp ==
    /\ sh.phase = "run"
    /\ Len(tb.stack) = sh.depth
    /\ Becomes(TbFinishNode(hasher, TbStartNodeAt(Now, sh.checkpoint, sh.kind),
                            env.overflow_checks))
    /\ sh' = [sh EXCEPT !.phase = "wrapped",
                        !.world = TbFinishNode(hasher, @, env.overflow_checks)]
    /\ UNCHANGED <<ext, hasher, env, last, nd, probe, it, rp, dr, de>>

\* parse_expr(&mut builder, 0.0, tokens), line 137, on the new builder.
ParsePratt ==
    /\ sh.phase = "none"
    /\ tb = NoTree
    /\ Becomes(parse_expr(hasher, [w |-> Now, tts |-> env.tts], 0,
                          env.overflow_checks).w)
    /\ sh' = [sh EXCEPT !.phase = "parsed"]
    /\ UNCHANGED <<ext, hasher, env, last, nd, probe, it, rp, dr, de>>

NextWrap ==
    \/ \E kind \in env.token_kinds : \E text \in env.texts :
          sh.phase = "none" /\ TreeToken(kind, text)
    \/ \E kind \in env.kinds : sh.phase = "none" /\ TreeStartNode(kind)
    \/ \E kind \in env.kinds : TakeCheckpoint(kind)
    \/ \E kind \in env.token_kinds : \E text \in env.texts : RunToken(kind, text)
    \/ \E kind \in env.kinds : RunStartNode(kind)
    \/ RunFinishNode
    \/ \E c \in Checkpoints : \E kind \in env.kinds : RunStartNodeAt(c, kind)
    \/ \E c \in Checkpoints : RunFinishNodeAt(c)
    \/ WrapUp
    \/ ParsePratt
    \/ sh.phase = "parsed" /\ tb.op # "finish" /\ TreeFinish

SpecWrap == InitWrap /\ [][NextWrap]_vars

\* EXPR(EXPR(atom, *, atom), +, EXPR(atom, *, atom)), lines 122-136.
TokenShape(kind) == [kind |-> kind, text |-> text_of(kind)]
MulShape ==
    [kind |-> EXPR,
     children |-> <<TokenShape(ATOM), TokenShape(MUL), TokenShape(ATOM)>>]
ExpectedShape ==
    [kind |-> EXPR, children |-> <<MulShape, TokenShape(PLUS), MulShape>>]

\* What wrapping after the fact would leave now, and what finish_node()
\* leaves on the builder that started the node at the checkpoint.
Retroactive ==
    TbFinishNode(hasher, TbStartNodeAt(Now, sh.checkpoint, sh.kind),
                 env.overflow_checks)
Proactive == TbFinishNode(hasher, sh.world, env.overflow_checks)

\* C18: retroactive wrapping equals proactive wrapping: after c =
\* checkpoint() and a balanced run of calls that stays at or after c,
\* start_node_at(c, k) followed by finish_node() leaves the same buffer and
\* the same interned node (same cache, same frames) as start_node(k) at the
\* moment c was taken and finish_node() at the end.  The Pratt driver on
\* atom * atom + atom * atom yields EXPR(EXPR(a,*,a), +, EXPR(a,*,a)).
C18_RetroactiveEqualsProactive ==
    /\ sh.phase = "run" => ~sh.world.tb.fault
    /\ (sh.phase = "run" /\ Len(tb.stack) = sh.depth) =>
          /\ ~Retroactive.tb.fault
          /\ ~Proactive.tb.fault
          /\ Retroactive.tb.children = Proactive.tb.children
          /\ Len(Retroactive.tb.children) = sh.checkpoint + 1
          /\ Retroactive.tb.stack = Proactive.tb.stack
          /\ Retroactive.heap = Proactive.heap
          /\ Retroactive.nodes = Proactive.nodes
          /\ Retroactive.tokens = Proactive.tokens
    /\ sh.phase = "wrapped" =>
          /\ tb.children = sh.world.tb.children
          /\ tb.stack = sh.world.tb.stack
          /\ heap = sh.world.heap
          /\ nodes = sh.world.nodes /\ tokens = sh.world.tokens
    /\ (sh.phase = "parsed" /\ tb.op # "finish") =>
          /\ ~TbFinish(Now).tb.fault
          /\ Shape(heap, TbFinish(Now).tb.result) = ExpectedShape
    /\ (sh.phase = "parsed" /\ tb.op = "finish") =>
          /\ ~tb.fault
          /\ Shape(heap, tb.result) = ExpectedShape

\* Two elements added after the checkpoint, behind one that was there before
\* it, were wrapped after the fact.
C18_Witness ==
    /\ sh.phase = "wrapped" /\ sh.checkpoint = 1
    /\ ~tb.fault /\ Len(tb.children) = 2
    /\ Len(heap[tb.children[2]].children) = 2

-----------------------------------------------------------------------------
(* The replay specification: a script of TreeBuilder calls that builds one  *)
(* tree is run, finish() hands the root to the user, and the same script is *)
(* run again, either on the same TreeBuilder or on the one made by          *)
(* TreeBuilder::new_with(first.recycle()).  The user keeps the first root.  *)

MaxScript == 5        \* calls of a script, finish() not counted

ScriptCalls ==
    {[op |-> "token", kind |-> 0, text |-> text] : text \in Texts}
       \cup {[op |-> "start_node", kind |-> kind, text |-> <<>>] : kind \in Kinds}
       \cup {[op |-> "finish_node", kind |-> 0, text |-> <<>>]}

\* Open nodes after the calls of a script.
RECURSIVE Depth(_)
Depth(script) ==
    IF script = <<>> THEN 0
    ELSE LET call == script[Len(script)]
             before == Depth(SubSeq(script, 1, Len(script) - 1))
         IN  IF call.op = "start_node" THEN before + 1
             ELSE IF call.op = "finish_node" THEN before - 1 ELSE before

\* The script builds one node: everything is inside the node its first call
\* starts and its last call finishes.
BuildsOneTree(script) ==
    /\ Len(script) >= 2
    /\ Depth(script) = 0
    /\ \A i \in 1..(Len(script) - 1) : Depth(SubSeq(script, 1, i)) >= 1

Scripts == {script \in SeqsUpTo(ScriptCalls, MaxScript) : BuildsOneTree(script)}

ReplayModes == {"same", "new_with"}

InitReplay ==
    /\ heap = [a \in 1..MaxWrapAddr |-> FreeCell]
    /\ ext = [a \in 1..MaxWrapAddr |-> 0]
    /\ nodes = RawTableNew
    /\ tokens = RawTableNew
    /\ hasher \in Seeds
    /\ env = TreeEnv
    /\ last = NoCall
    /\ nd = NoNode
    /\ probe = NoProbe
    /\ tb = NoTree
    /\ sh = NoShadow
    /\ it = NoIter
    /\ rp \in {[NoReplay EXCEPT !.script = script, !.pass = "first", !.mode = mode] :
                 script \in Scripts, mode \in ReplayModes}
    /\ dr = NoDrop
    /\ de = NoSerde

\* One call of the script on the TreeBuilder.
ScriptCall(seed, w, call, overflow_checks) ==
    IF call.op = "token" THEN TbToken(seed, w, call.kind, call.text)
    ELSE IF call.op = "start_node" THEN TbStartNode(w, call.kind)
    ELSE TbFinishNode(seed, w, overflow_checks)

ReplayStep ==
    /\ rp.pass \in {"first", "second"}
    /\ rp.pc <= Len(rp.script)
    /\ ~tb.fault
    /\ Becomes(ScriptCall(hasher, Now, rp.script[rp.pc], env.overflow_checks))
    /\ rp' = [rp EXCEPT !.pc = @ + 1]
    /\ UNCHANGED <<ext, hasher, env, last, nd, probe, sh, it, dr, de>>

\* let first = tree.finish(); size() is read after it.
FinishFirst ==
    /\ rp.pass = "first"
    /\ rp.pc > Len(rp.script)
    /\ Becomes(TbFinish(Now))
    /\ rp' = [rp EXCEPT !.pass = IF rp.mode = "same" THEN "second" ELSE "recycle",
                        !.pc = 1,
                        !.root = TbFinish(Now).tb.result,
                        !.size = Size(nodes, tokens)]
    /\ UNCHANGED <<ext, hasher, env, last, nd, probe, sh, it, dr, de>>

\* let tree = TreeBuilder::new_with(tree.recycle());
ReplayRecycle ==
    /\ rp.pass = "recycle"
    /\ Becomes(TbRecycle(Now))
    /\ rp' = [rp EXCEPT !.pass = "second"]
    /\ UNCHANGED <<ext, hasher, env, last, nd, probe, sh, it, dr, de>>

\* let second = tree.finish();
FinishSecond ==
    /\ rp.pass = "second"
    /\ rp.pc > Len(rp.script)
    /\ Becomes(TbFinish(Now))
    /\ rp' = [rp EXCEPT !.pass = "done"]
    /\ UNCHANGED <<ext, hasher, env, last, nd, probe, sh, it, dr, de>>

NextReplay ==
    \/ ReplayStep
    \/ FinishFirst
    \/ ReplayRecycle
    \/ FinishSecond

SpecReplay == InitReplay /\ [][NextReplay]_vars

\* C19: interning is shared across trees that share a Builder: building the
\* same call sequence twice on one TreeBuilder (finish() in between), or on a
\* second TreeBuilder made by new_with(first.recycle()), returns a root
\* pointer-identical to the first root while the first root is alive, and
\* the second build does not increase size().
C19_SecondBuildIsFirstTree ==
    rp.pass = "done" =>
        /\ ~tb.fault
        /\ heap[rp.root].tag = "node"
        /\ tb.result = rp.root
        /\ Size(nodes, tokens) = rp.size

-----------------------------------------------------------------------------
(* Children, children.rs: a slice iterator over the node's elements         *)
(* [front, back) and the alignment of the element at the head.  An element  *)
(* is read through the layout the iterator believes it has; if that is not  *)
(* the layout it was written with the read is unsound (a debug assertion    *)
(* fails, or the pointer is assembled from the wrong bytes).                *)

MaxIterFanout == 4    \* children of the node that is iterated

\* Children::new, lines 31-34.
ChildrenNew(node) ==
    [front |-> 0, back |-> Len(node.children), full_align |-> TRUE]

\* element.full_aligned() / element.half_aligned() on the element at index i,
\* element.rs lines 119-151.
ReadElement(node, i, full_align) ==
    [some |-> TRUE, index |-> i, ptr |-> node.children[i + 1].ptr,
     sound |-> (node.children[i + 1].full = full_align)]

\* ExactSizeIterator::len, lines 162-164.
ChildrenLen(c) == c.back - c.front

\* Iterator::next, lines 87-96.
ChildrenNext(node, c) ==
    IF c.front = c.back THEN [inner |-> c, item |-> NoItem]
    ELSE [inner |-> [c EXCEPT !.front = @ + 1, !.full_align = ~@],
          item |-> ReadElement(node, c.front, c.full_align)]

\* The element popped from the back, read with the given alignment.
PoppedBack(node, c, full_align) ==
    [inner |-> c, item |-> ReadElement(node, c.back, full_align)]

\* next_back with the parity of the length before the element is popped.
ChildrenNextBackLenBefore(node, c) ==
    IF c.front = c.back THEN [inner |-> c, item |-> NoItem]
    ELSE PoppedBack(node, [c EXCEPT !.back = @ - 1],
                    c.full_align # (ChildrenLen(c) % 2 = 1))

\* DoubleEndedIterator::next_back, lines 169-179: self.len() is read after
\* the element is popped; the head's alignment is not changed.
ChildrenNextBack(node, c) ==
    IF c.front = c.back THEN [inner |-> c, item |-> NoItem]
    ELSE PoppedBack(node, [c EXCEPT !.back = @ - 1],
                    c.full_align # ((ChildrenLen(c) - 1) % 2 = 1))

\* Everything next() yields until None, and everything next_back() yields.
RECURSIVE CollectNext(_, _)
CollectNext(node, c) ==
    IF ~ChildrenNext(node, c).item.some THEN <<>>
    ELSE <<ChildrenNext(node, c).item>> \o CollectNext(node, ChildrenNext(node, c).inner)

RECURSIVE CollectNextBack(_, _)
CollectNextBack(node, c) ==
    IF ~ChildrenNextBack(node, c).item.some THEN <<>>
    ELSE <<ChildrenNextBack(node, c).item>>
            \o CollectNextBack(node, ChildrenNextBack(node, c).inner)

Reverse(s) == [i \in 1..Len(s) |-> s[Len(s) + 1 - i]]

-----------------------------------------------------------------------------
(* The iterator specification: a node is written by Node::new, one          *)
(* Children iterator is made over it, and next() and next_back() are        *)
(* called in any order, also after None was returned.                       *)

IterLens == {TsZero, TS(0, 1)}

InitIter ==
    /\ heap = EmptyHeap
    /\ ext = [a \in Addrs |-> 0]
    /\ nodes = RawTableNew
    /\ tokens = RawTableNew
    /\ hasher = 0
    /\ env = [overflow_checks |-> TRUE, binary_search |-> "branchless"]
    /\ last = NoCall
    /\ nd = NoNode
    /\ probe = NoProbe
    /\ tb = NoTree
    /\ sh = NoShadow
    /\ it = NoIter
    /\ rp = NoReplay
    /\ dr = NoDrop
    /\ de = NoSerde

\* let mut it = nd.children();
IterNew ==
    /\ nd.state = "built"
    /\ ~it.used
    /\ it' = [NoIter EXCEPT !.used = TRUE, !.inner = ChildrenNew(nd.node)]
    /\ UNCHANGED <<heap, ext, nodes, tokens, hasher, env, last, nd, probe, tb, sh, rp, dr, de>>

\* The call returned r: the item is noted at the end it was taken from.
IterCall(r, from_front) ==
    /\ it.used
    /\ it' = [it EXCEPT !.inner = r.inner,
                        !.item = r.item,
                        !.none = @ \/ ~r.item.some,
                        !.fronts = IF r.item.some /\ from_front
                                   THEN Append(@, r.item) ELSE @,
                        !.backs = IF r.item.some /\ ~from_front
                                  THEN Append(@, r.item) ELSE @]
    /\ UNCHANGED <<heap, ext, nodes, tokens, hasher, env, last, nd, probe, tb, sh, rp, dr, de>>

\* it.next()
IterNext == IterCall(ChildrenNext(nd.node, it.inner), TRUE)

\* it.next_back()
IterNextBack == IterCall(ChildrenNextBack(nd.node, it.inner), FALSE)

NextIter ==
    \/ \E kind \in Kinds :
         \E lens \in SeqsUpTo(IterLens, MaxIterFanout) :
            ~it.used /\ BuildNode(kind, [i \in 1..Len(lens) |-> Elem(i, lens[i])])
    \/ IterNew
    \/ IterNext
    \/ IterNextBack

SpecIter == InitIter /\ [][NextIter]_vars

\* The item is the child at index i, read soundly.
IsChild(item, i) ==
    /\ item.some /\ item.sound
    /\ item.index = i
    /\ item.ptr = nd.node.children[i + 1].ptr

\* C20: for any node and any interleaving of next() and next_back() on one
\* Children iterator, every child is yielded exactly once, the ones taken
\* from the front in index order and the ones taken from the back in reverse
\* index order; collecting with next() only equals the reverse of collecting
\* with next_back() only; once the iterator has returned None it returns
\* None forever.
C20_ChildrenDoubleEnded ==
    /\ it.used =>
          /\ \A j \in 1..Len(it.fronts) : IsChild(it.fronts[j], j - 1)
          /\ \A j \in 1..Len(it.backs) :
                IsChild(it.backs[j], Len(nd.node.children) - j)
          /\ Len(it.fronts) + Len(it.backs) <= Len(nd.node.children)
          /\ it.none =>
                /\ Len(it.fronts) + Len(it.backs) = Len(nd.node.children)
                /\ ~ChildrenNext(nd.node, it.inner).item.some
                /\ ~ChildrenNextBack(nd.node, it.inner).item.some
    /\ nd.state = "built" =>
          /\ CollectNext(nd.node, ChildrenNew(nd.node))
                = Reverse(CollectNextBack(nd.node, ChildrenNew(nd.node)))
          /\ Len(CollectNext(nd.node, ChildrenNew(nd.node))) = Len(nd.node.children)
          /\ \A j \in 1..Len(nd.node.children) :
                IsChild(CollectNext(nd.node, ChildrenNew(nd.node))[j], j - 1)

\* Four children, two taken from each end, the calls interleaved, and None
\* returned after them.
C20_Witness ==
    /\ it.used /\ it.none
    /\ Len(nd.node.children) = MaxIterFanout
    /\ Len(it.fronts) = 2 /\ Len(it.backs) = 2
    /\ it.item = NoItem

-----------------------------------------------------------------------------
(* Random access on Children: peek, get, nth, nth_back, count.              *)

MaxSeek == 2    \* largest argument given to nth and nth_back

\* Children::peek, lines 42-49: the first element of the remaining slice,
\* read with the head's alignment.
ChildrenPeek(node, c) ==
    IF c.front = c.back THEN [inner |-> c, item |-> NoItem]
    ELSE [inner |-> c, item |-> ReadElement(node, c.front, c.full_align)]

\* Children::get, lines 53-61.
ChildrenGet(node, c, n) ==
    IF n >= ChildrenLen(c) THEN [inner |-> c, item |-> NoItem]
    ELSE [inner |-> c,
          item |-> ReadElement(node, c.front + n, c.full_align # (n % 2 = 1))]

\* Iterator::size_hint and Iterator::count, lines 98-106: the slice
\* iterator's own.
ChildrenSizeHint(c) == <<c.back - c.front, c.back - c.front>>
ChildrenCount(c) == c.back - c.front

\* The element reached by nth, read with the given alignment, which the
\* head then leaves behind.
SkippedTo(node, c, n, full_align) ==
    [inner |-> [c EXCEPT !.front = @ + n + 1, !.full_align = ~full_align],
     item |-> ReadElement(node, c.front + n, full_align)]

\* nth that toggles the head's alignment once, as next does.
ChildrenNthToggleOnce(node, c, n) ==
    IF n >= ChildrenLen(c)
    THEN [inner |-> [c EXCEPT !.front = c.back], item |-> NoItem]
    ELSE [inner |-> [c EXCEPT !.front = @ + n + 1, !.full_align = ~@],
          item |-> ReadElement(node, c.front + n, c.full_align # (n % 2 = 1))]

\* Iterator::nth, lines 114-123: slice::Iter::nth empties the iterator when
\* n >= len, and `?` returns before full_align is touched.
ChildrenNth(node, c, n) ==
    IF n >= ChildrenLen(c)
    THEN [inner |-> [c EXCEPT !.front = c.back], item |-> NoItem]
    ELSE SkippedTo(node, c, n, c.full_align # (n % 2 = 1))

\* DoubleEndedIterator::nth_back, lines 182-192.
ChildrenNthBack(node, c, n) ==
    IF n >= ChildrenLen(c)
    THEN [inner |-> [c EXCEPT !.back = c.front], item |-> NoItem]
    ELSE PoppedBack(node, [c EXCEPT !.back = @ - n - 1],
                    c.full_align # ((ChildrenLen(c) - n - 1) % 2 = 1))

\* it.nth(n) or it.nth_back(n) returned r.
IterSeek(r, op, n) ==
    /\ it.used
    /\ it' = [it EXCEPT !.inner = r.inner, !.item = r.item,
                        !.none = @ \/ ~r.item.some]
    /\ last' = [NoCall EXCEPT !.op = op, !.result = n, !.hit = r.item.some,
                              !.size_before = ChildrenLen(it.inner)]
    /\ UNCHANGED <<heap, ext, nodes, tokens, hasher, env, nd, probe, tb, sh, rp, dr, de>>

IterNth(n) == IterSeek(ChildrenNth(nd.node, it.inner, n), "nth", n)

IterNthBack(n) == IterSeek(ChildrenNthBack(nd.node, it.inner, n), "nth_back", n)

NextSeek ==
    \/ \E kind \in Kinds :
         \E lens \in SeqsUpTo(IterLens, MaxIterFanout) :
            ~it.used /\ BuildNode(kind, [i \in 1..Len(lens) |-> Elem(i, lens[i])])
    \/ IterNew
    \/ IterNext
    \/ IterNextBack
    \/ \E n \in 0..MaxSeek : IterNth(n)
    \/ \E n \in 0..MaxSeek : IterNthBack(n)

SpecSeek == InitIter /\ [][NextSeek]_vars

\* The call returned nothing, or the child at index i read soundly.
NoneOrChild(r, i, some) ==
    IF some THEN IsChild(r.item, i) ELSE r.item = NoItem

\* C21: in every iterator state reached by next, next_back, nth and
\* nth_back, peek() and get(n) leave the iterator as it is, peek() equals
\* get(0) and what the next next() returns, get(k) equals what nth(k)
\* returns from that state, len() is the number of elements still to be
\* yielded and equals count(), and nth(k) moves the head by k + 1, or
\* returns None and empties the iterator when k >= len().
C21_PeekGetNthAgree ==
    it.used =>
       /\ ChildrenPeek(nd.node, it.inner).inner = it.inner
       /\ ChildrenPeek(nd.node, it.inner).item = ChildrenGet(nd.node, it.inner, 0).item
       /\ ChildrenPeek(nd.node, it.inner).item = ChildrenNext(nd.node, it.inner).item
       /\ ChildrenLen(it.inner) = Len(CollectNext(nd.node, it.inner))
       /\ ChildrenLen(it.inner) = Len(CollectNextBack(nd.node, it.inner))
       /\ ChildrenCount(it.inner) = ChildrenLen(it.inner)
       /\ ChildrenSizeHint(it.inner) = <<ChildrenLen(it.inner), ChildrenLen(it.inner)>>
       /\ \A k \in 0..MaxIterFanout :
             /\ ChildrenGet(nd.node, it.inner, k).inner = it.inner
             /\ ChildrenGet(nd.node, it.inner, k).item
                   = ChildrenNth(nd.node, it.inner, k).item
             /\ NoneOrChild(ChildrenGet(nd.node, it.inner, k), it.inner.front + k,
                            k < ChildrenLen(it.inner))
             /\ ChildrenLen(ChildrenNth(nd.node, it.inner, k).inner)
                   = Max({ChildrenLen(it.inner) - (k + 1), 0})
             /\ ChildrenNth(nd.node, it.inner, k).inner.back = it.inner.back
             /\ k < ChildrenLen(it.inner) =>
                   ChildrenNth(nd.node, it.inner, k).inner.front
                      = it.inner.front + k + 1

\* After one next(), nth(1) has just skipped from a half-aligned head to the
\* full-aligned child 2 and left the half-aligned child 3 at the head.
C21_Witness ==
    /\ it.used
    /\ last.op = "nth" /\ last.result = 1 /\ last.hit /\ last.size_before = 3
    /\ it.item.some /\ it.item.index = 2
    /\ it.inner.front = 3 /\ ~it.inner.full_align
    /\ ChildrenLen(it.inner) = 1

-----------------------------------------------------------------------------
(* The pool specification: one TreeBuilder whose Builder is also reached    *)
(* through tree.builder() for gc() and turn_gc() between construction       *)
(* steps, and a user who clones and drops the handles finish() returned.    *)

MaxClones == 2    \* handles the user holds on one allocation after cloning

\* Nodes of one kind, one hasher seed.
PoolEnv == [TreeEnv EXCEPT !.kinds = {0}]

InitPool == InitWith(PoolEnv, {0})

\* let more = handle.clone();
PoolClone(a) ==
    /\ ext[a] > 0
    /\ ext[a] < MaxClones
    /\ heap' = ArcClone(heap, a)
    /\ ext' = [ext EXCEPT ![a] = @ + 1]
    /\ last' = [NoCall EXCEPT !.op = "clone", !.result = a]
    /\ UNCHANGED <<nodes, tokens, hasher, env, nd, probe, tb, sh, it, rp, dr, de>>

NextPool ==
    \/ \E kind \in env.token_kinds : \E text \in env.texts : TreeToken(kind, text)
    \/ \E kind \in env.kinds : TreeStartNode(kind)
    \/ TreeFinishNode
    \/ \E c \in Checkpoints : \E kind \in env.kinds : TreeStartNodeAt(c, kind)
    \/ \E c \in Checkpoints : TreeFinishNodeAt(c)
    \/ TreeFinish
    \/ \E a \in Addrs : PoolClone(a)
    \/ \E a \in Addrs : DropExt(a)
    \/ CallGc
    \/ CallTurnGc

SpecPool == InitPool /\ [][NextPool]_vars

\* Handles to a that wait in the TreeBuilder's children buffer.
BufferTo(a) == Cardinality({i \in 1..Len(tb.children) : tb.children[i] = a})

\* All handles to a that exist: the user's, the cache entry, the child slots
\* of live nodes and the entries of the children buffer.
HandlesTo(a) ==
    ext[a] + (IF a \in Cached THEN 1 ELSE 0) + SlotsTo(a) + BufferTo(a)

\* The handles a holder owns, as a sequence in address order.
RECURSIVE Repeat(_, _)
Repeat(a, n) == IF n = 0 THEN <<>> ELSE <<a>> \o Repeat(a, n - 1)

RECURSIVE HandleSeq(_, _)
HandleSeq(count, a) ==
    IF a > MaxAddr THEN <<>> ELSE Repeat(a, count[a]) \o HandleSeq(count, a + 1)

\* Dropping the TreeBuilder (tree_builder.rs lines 15-20: the cache, then the
\* children buffer) and every handle of the user.
DropEverything(h) ==
    DropHandles(DropHandles(DropHandles(h,
        HandleSeq([a \in Addrs |-> IF a \in Cached THEN 1 ELSE 0], 1)),
        tb.children),
        HandleSeq(ext, 1))

\* C22: reference counts balance over any sequence of build, clone, drop and
\* gc operations: the strong count of every allocation is the number of
\* handles to it (user handles, cache entry, child slots of live nodes,
\* TreeBuilder buffer entries), an allocation is live exactly while that
\* number is positive, a freed allocation is referred to by no handle, and
\* dropping every handle and the Builder frees everything.
C22_CountsBalance ==
    /\ \A a \in Addrs :
          /\ heap[a].tag # "free" => (heap[a].rc = HandlesTo(a) /\ heap[a].rc >= 1)
          /\ heap[a].tag = "free" => (heap[a] = FreeCell /\ HandlesTo(a) = 0)
    /\ DropEverything(heap) = EmptyHeap

\* A tree of a node over a token was finished, the user dropped every handle
\* to it, and gc() then freed the node, which released its child slot, and
\* the token.
C22_Witness ==
    /\ last.op = "gc"
    /\ last.size_before >= 2
    /\ heap = EmptyHeap
    /\ tb.finishes >= 1

-----------------------------------------------------------------------------
(* Drop for Node, node.rs lines 50-108, step by step.  Each thread drops    *)
(* one Arc<Node>.  The atomic operations on a strong count are single       *)
(* steps: the fetch_sub of Arc::drop and the load of Arc::get_mut.  A       *)
(* destructor invocation is a frame: the node being destroyed, its work     *)
(* stack, and a popped handle that was not unique and is yet to be dropped. *)
(* While its destructor runs, a node's strong count is 0 and its memory is  *)
(* still allocated.                                                         *)

MaxDropNodes == 3     \* nodes of the trees that are dropped
MaxDropFanout == 2    \* children of each of them

DropToken0 == Alloc(EmptyHeap)
DropNodes == (DropToken0 + 1)..(DropToken0 + MaxDropNodes)

\* Every tree shape: the children of a node were allocated before it.
DropShapes ==
    {shape \in [DropNodes -> SeqsUpTo(DropToken0..(DropToken0 + MaxDropNodes - 1),
                                      MaxDropFanout)] :
        \A a \in DropNodes : \A i \in 1..Len(shape[a]) : shape[a][i] < a}

\* The nodes of a shape, made bottom-up from clones of their children.
RECURSIVE BuildShape(_, _, _)
BuildShape(h, shape, a) ==
    IF a \notin DropNodes THEN h
    ELSE BuildShape([CloneAll(h, shape[a]) EXCEPT
                        ![a] = NodeAlloc(h, a, shape[a], TRUE).cell],
                    shape, a + 1)

\* The handles the threads and the keeper hold are cloned, then the handles
\* the allocations were made with are dropped, parents first.
RECURSIVE Descending(_, _)
Descending(hi, lo) == IF hi < lo THEN <<>> ELSE <<hi>> \o Descending(hi - 1, lo)

HeldShape(shape, held) ==
    DropHandles(CloneAll(BuildShape([EmptyHeap EXCEPT
                                        ![DropToken0] = TokenNew(0, <<97>>)],
                                    shape, DropToken0 + 1),
                         held),
                Descending(DropToken0 + MaxDropNodes, DropToken0))

Thread(a) == [state |-> "holding", handle |-> a, frames |-> <<>>]

DropThreads == {1, 2}

InitDrop ==
    /\ \E shape \in DropShapes :
         \E x \in DropNodes : \E y \in DropNodes : \E keep \in SeqsUpTo(DropNodes, 1) :
            /\ x <= y
            /\ heap = HeldShape(shape, <<x, y>> \o keep)
            /\ ext = [a \in Addrs |-> IF keep = <<a>> THEN 1 ELSE 0]
            /\ dr = [threads |-> <<Thread(x), Thread(y)>>,
                     before |-> HeldShape(shape, <<x, y>> \o keep)]
    /\ nodes = RawTableNew
    /\ tokens = RawTableNew
    /\ hasher = 0
    /\ env = TreeEnv
    /\ last = NoCall
    /\ nd = NoNode
    /\ probe = NoProbe
    /\ tb = NoTree
    /\ sh = NoShadow
    /\ it = NoIter
    /\ rp = NoReplay
    /\ de = NoSerde

\* An Arc::drop that takes itself for the last while one other handle is
\* left.
ArcDropEarly(h, a) ==
    [heap |-> [h EXCEPT ![a].rc = @ - 1], was_last |-> (h[a].rc <= 2)]

\* Arc::drop up to the destructor: strong.fetch_sub(1); the caller that took
\* the count from 1 to 0 is the last and goes on to destroy the node.
ArcDrop(h, a) ==
    [heap |-> [h EXCEPT ![a].rc = @ - 1], was_last |-> (h[a].rc = 1)]

\* Node::drop is entered: its work stack is empty, drop_into(self) is next.
NewFrame(a) == [node |-> a, stack |-> <<>>, pending |-> 0, entered |-> FALSE]

\* drop_into(self, &mut stack), line 102.
DropIntoSelf(h, f) ==
    [heap |-> DropInto(h, h[f.node].children, f.stack).heap,
     frame |-> [f EXCEPT !.stack = DropInto(h, h[f.node].children, f.stack).stack,
                         !.entered = TRUE]]

\* The popped handle this, with the rest of the stack: Arc::get_mut answered
\* unique or not.
GotMut(h, f, this, rest, unique) ==
    IF unique
    THEN [heap |-> [DropInto(h, h[this].children, rest).heap EXCEPT ![this] = FreeCell],
          frame |-> [f EXCEPT !.stack = DropInto(h, h[this].children, rest).stack]]
    ELSE [heap |-> h, frame |-> [f EXCEPT !.stack = rest, !.pending = this]]

\* maybe_drop_into without the uniqueness check: every popped handle is
\* dropped as an Arc.
MaybeDropIntoUnchecked(h, f) ==
    GotMut(h, f, f.stack[Len(f.stack)], SubSeq(f.stack, 1, Len(f.stack) - 1), FALSE)

\* maybe_drop_into that takes a handle for unique while one other exists.
MaybeDropIntoShared(h, f) ==
    GotMut(h, f, f.stack[Len(f.stack)], SubSeq(f.stack, 1, Len(f.stack) - 1),
           h[f.stack[Len(f.stack)]].rc <= 2)

\* maybe_drop_into that leaves the handle on the work stack.
MaybeDropIntoKeepsHandle(h, f) == [heap |-> h, frame |-> f]

\* stack.pop() and maybe_drop_into up to its branch, lines 64-78 and 103:
\* a unique handle has its children queued and its allocation released
\* without the destructor; any other is left to be dropped.
MaybeDropInto(h, f) ==
    GotMut(h, f, f.stack[Len(f.stack)], SubSeq(f.stack, 1, Len(f.stack) - 1),
           h[f.stack[Len(f.stack)]].rc = 1)

TopFrame(frames) == frames[Len(frames)]
SetTopFrame(frames, f) == [frames EXCEPT ![Len(frames)] = f]

\* Thread t moves to the state th, the heap becomes h.
DropMoves(t, th, h) ==
    /\ dr' = [dr EXCEPT !.threads[t] = th]
    /\ heap' = h
    /\ UNCHANGED <<ext, nodes, tokens, hasher, env, last, nd, probe, tb, sh, it, rp, de>>

\* drop(handle): the decrement; the last handle enters Node::drop.
DropBegin(t) ==
    /\ dr.threads[t].state = "holding"
    /\ DropMoves(t,
          IF ArcDrop(heap, dr.threads[t].handle).was_last
          THEN [dr.threads[t] EXCEPT !.state = "running",
                                     !.frames = <<NewFrame(dr.threads[t].handle)>>]
          ELSE [dr.threads[t] EXCEPT !.state = "done"],
          ArcDrop(heap, dr.threads[t].handle).heap)

Running(t) == dr.threads[t].state = "running"

\* The frame r.frame replaces the top frame of thread t.
DropFrameStep(t, r) ==
    DropMoves(t, [dr.threads[t] EXCEPT !.frames = SetTopFrame(@, r.frame)], r.heap)

DropStepSelf(t) ==
    /\ Running(t)
    /\ ~TopFrame(dr.threads[t].frames).entered
    /\ DropFrameStep(t, DropIntoSelf(heap, TopFrame(dr.threads[t].frames)))

DropStepPop(t) ==
    /\ Running(t)
    /\ TopFrame(dr.threads[t].frames).entered
    /\ TopFrame(dr.threads[t].frames).pending = 0
    /\ TopFrame(dr.threads[t].frames).stack # <<>>
    /\ DropFrameStep(t, MaybeDropInto(heap, TopFrame(dr.threads[t].frames)))

\* drop(this), line 76: the decrement of a handle that was not unique; if it
\* is the last by now, Node::drop is entered for it, nested.
DropPending(frames, r) ==
    IF r.was_last
    THEN Append(SetTopFrame(frames, [TopFrame(frames) EXCEPT !.pending = 0]),
                NewFrame(TopFrame(frames).pending))
    ELSE SetTopFrame(frames, [TopFrame(frames) EXCEPT !.pending = 0])

DropStepPending(t) ==
    /\ Running(t)
    /\ TopFrame(dr.threads[t].frames).pending # 0
    /\ DropMoves(t,
          [dr.threads[t] EXCEPT !.frames =
              DropPending(@, ArcDrop(heap, TopFrame(dr.threads[t].frames).pending))],
          ArcDrop(heap, TopFrame(dr.threads[t].frames).pending).heap)

\* Node::drop returns, line 107, and Arc::drop releases the allocation.
DropReturns(th) ==
    [th EXCEPT !.frames = SubSeq(@, 1, Len(@) - 1),
               !.state = IF Len(th.frames) = 1 THEN "done" ELSE "running"]

DropStepReturn(t) ==
    /\ Running(t)
    /\ TopFrame(dr.threads[t].frames).entered
    /\ TopFrame(dr.threads[t].frames).pending = 0
    /\ TopFrame(dr.threads[t].frames).stack = <<>>
    /\ DropMoves(t, DropReturns(dr.threads[t]),
                 [heap EXCEPT ![TopFrame(dr.threads[t].frames).node] = FreeCell])

DropStep(t) ==
    \/ DropBegin(t)
    \/ DropStepSelf(t)
    \/ DropStepPop(t)
    \/ DropStepPending(t)
    \/ DropStepReturn(t)

\* Both threads run freely.
NextDrop == \E t \in DropThreads : DropStep(t)

SpecDrop == InitDrop /\ [][NextDrop]_vars

\* One thread drops at a time: a thread moves only while no other is inside
\* its drop.
NextSerial ==
    \E t \in DropThreads :
        /\ \A u \in DropThreads \ {t} : ~Running(u)
        /\ DropStep(t)

SpecSerial == InitDrop /\ [][NextSerial]_vars

Quiet == \A t \in DropThreads : dr.threads[t].state = "done"

\* What the drops of the threads' handles leave, one whole drop after the
\* other.
DroppedInTurn ==
    DropHandles(dr.before, <<dr.threads[1].handle, dr.threads[2].handle>>)

\* No count was decremented below zero and no freed cell was touched.
NoFault ==
    \A a \in Addrs :
        /\ heap[a].rc >= 0
        /\ heap[a].tag = "free" => heap[a] = FreeCell

\* C23: when handles are dropped by one thread at a time, Node::drop never
\* runs nested inside another Node::drop: a popped last reference has its
\* children moved onto the work stack and is freed without its destructor,
\* any other is only decremented; the nesting depth is at most 1 for every
\* tree depth.
C23_DropIsIterative ==
    /\ \A t \in DropThreads : Len(dr.threads[t].frames) <= 1
    /\ \A t \in DropThreads :
          (Running(t) /\ TopFrame(dr.threads[t].frames).pending # 0) =>
              heap[TopFrame(dr.threads[t].frames).pending].rc > 1
    /\ NoFault
    /\ Quiet => heap = DroppedInTurn

\* A spine of three nodes over a token was dropped through one handle and
\* is gone.
C23_Witness ==
    /\ Quiet
    /\ heap = EmptyHeap
    /\ \A a \in DropNodes : Len(dr.before[a].children) = 1
    /\ dr.before[DropToken0 + MaxDropNodes].rc = 2
    /\ dr.before[DropToken0 + 1].rc = 1

\* The keeper's handles and the child slots of live nodes are all the
\* handles left when the threads are done.
KeptCounts ==
    \A a \in Addrs :
        IF ext[a] + SlotsTo(a) = 0 THEN heap[a] = FreeCell
        ELSE heap[a].tag # "free" /\ heap[a].rc = ext[a] + SlotsTo(a)

\* C24: when two threads concurrently drop handles to the same node or to
\* nodes sharing descendants, in every interleaving of the uniqueness check
\* and the atomic decrements each child of every freed node is released
\* exactly once and every allocation is freed exactly once; a lost race only
\* makes a node be destroyed by its destructor, not through the work stack.
C24_ConcurrentDropsBalance ==
    /\ NoFault
    /\ \A t \in DropThreads : \A i \in 1..Len(dr.threads[t].frames) :
          /\ heap[dr.threads[t].frames[i].node].tag = "node"
          /\ heap[dr.threads[t].frames[i].node].rc = 0
          /\ \A j \in 1..Len(dr.threads[t].frames[i].stack) :
                heap[dr.threads[t].frames[i].stack[j]].rc >= 1
    /\ Quiet =>
          /\ heap = DroppedInTurn
          /\ KeptCounts

\* Both threads found the shared child not unique, the first decremented it,
\* and the second, the last by then, is inside the child's destructor,
\* nested in the destructor of its own node.
C24_Witness ==
    \E t \in DropThreads :
        /\ Len(dr.threads[t].frames) = 2
        /\ TopFrame(dr.threads[t].frames).entered

-----------------------------------------------------------------------------
(* Node::new and Node::try_new with a children iterator that fails: after   *)
(* k children it panics (new) or yields an error (try_new).                 *)

MaxFailChildren == 3  \* length the failing iterator reports
MaxFailTokens == 2    \* live tokens in the failure specification

FailEnv ==
    [kinds |-> {0}, token_kinds |-> Kinds, texts |-> {<<97>>},
     max_nodes |-> 1, max_tokens |-> MaxFailTokens, max_children |-> 1,
     overflow_checks |-> TRUE, binary_search |-> "branchless"]

InitFail == InitWith(FailEnv, {0})

\* The loop of Node::new (lines 221-225) and Node::try_new (lines 257-261)
\* over an iterator that yields clones of the handles children[1..k] and
\* then fails: each yielded child is pushed; the failure leaves the closure
\* with the ChildrenWriter alive, which is dropped.  No node exists, so
\* nothing reaches cache_node.
FailingNew(h, kind, children, k, overflow_checks) ==
    [heap |-> ChildrenWriterDrop(
                 CloneAll(h, NodeAlloc(h, kind, SubSeq(children, 1, k),
                                       overflow_checks).written),
                 NodeAlloc(h, kind, SubSeq(children, 1, k), overflow_checks).written),
     result |-> 0, fault |-> TRUE]

Failed == last.op \in {"new", "try_new"}

\* Node::new(kind, children) or Node::try_new(kind, children) on behalf of a
\* Builder, with an iterator that fails after k children.
FailNode(op, kind, children, k) ==
    /\ heap' = FailingNew(heap, kind, children, k, env.overflow_checks).heap
    /\ last' = [op |-> op,
                result |-> FailingNew(heap, kind, children, k,
                                      env.overflow_checks).result,
                hit |-> FailingNew(heap, kind, children, k, env.overflow_checks).fault,
                size_before |-> Size(nodes, tokens)]
    /\ UNCHANGED <<ext, nodes, tokens, hasher, env, nd, probe, tb, sh, it, rp, dr, de>>

\* The program ends with the failure.
NextFail ==
    /\ ~Failed
    /\ \/ \E kind \in env.token_kinds : \E text \in env.texts : CallToken(kind, text)
       \/ \E kind \in env.kinds :
            \E children \in SeqsUpTo(Held, env.max_children) : CallNode(kind, children)
       \/ \E a \in Addrs : DropExt(a)
       \/ \E op \in {"new", "try_new"} : \E kind \in env.kinds :
            \E children \in SeqsUpTo(Held, MaxFailChildren) \ {<<>>} :
               \E k \in 0..(Len(children) - 1) : FailNode(op, kind, children, k)

SpecFail == InitFail /\ [][NextFail]_vars

\* C25: if the children iterator given to Node::new panics, or the one given
\* to Node::try_new yields an error, after k children were written
\* (0 <= k < len), each of those k children is released exactly once (every
\* strong count is again the number of handles that exist), no node is
\* returned or cached, and the failure is propagated.
C25_FailedNewReleasesWritten ==
    Failed =>
       /\ CountsAreHandles
       /\ last.result = 0
       /\ last.hit
       /\ Size(nodes, tokens) = last.size_before

-----------------------------------------------------------------------------
(* Serialization, serde/ser.rs, and deserialization through a Builder,      *)
(* serde/de.rs.  What a Serializer is given is kept as a value of serde's   *)
(* data model: a struct (variant) Node with a kind and a sequence of        *)
(* children, or a struct (variant) Token with a kind and a text, the text   *)
(* being what Token::text returns, an Option<&str>.                         *)

\* Token::is_thunk and Token::text, token.rs lines 65-77.
TokenText(cell) ==
    IF TsFromUsize(Len(cell.text)) # cell.text_len
    THEN [some |-> FALSE, str |-> <<>>]
    ELSE [some |-> TRUE, str |-> cell.text]

\* Serialize for Node, Token and Wrap, ser.rs lines 19-66; the children are
\* taken from node.children() in iteration order, lines 70-81.
RECURSIVE Serialized(_, _)
Serialized(h, a) ==
    IF h[a].tag = "token"
    THEN [variant |-> "Token", kind |-> h[a].kind, text |-> TokenText(h[a])]
    ELSE [variant |-> "Node", kind |-> h[a].kind,
          children |-> [i \in 1..ChildrenLen(ChildrenNew(h[a])) |->
                          Serialized(h, CollectNext(h[a], ChildrenNew(h[a]))[i].ptr)]]

\* The formats differ in what they make of serialize_some: a format with a
\* transparent Option (JSON, YAML) writes the string itself, a format with
\* an explicit Option (RON, the serde_test tokens, bincode) writes a Some
\* around it.  None is written as a unit in both.
Formats == {"transparent", "tagged"}

\* Str::deserialize and TokenTextVisitor, de.rs lines 30-62 and 150-165:
\* the deserializer is asked for a string (deserialize_string /
\* deserialize_str) and anything else is an invalid type.
ReadStr(format, text) ==
    [ok |-> text.some /\ format = "transparent", str |-> text.str]

DeResult(w, result, err) == [w |-> w, result |-> result, err |-> err]

\* self.0.token(kind, &text) returned r.
DeTokenGot(w, r) ==
    DeResult([w EXCEPT !.heap = r.heap, !.tokens = r.table], r.result, FALSE)

\* TokenSeed, de.rs lines 118-196, and the token arm of ElementVisitor.
DeToken(seed, w, value, format) ==
    IF ReadStr(format, value.text).ok
    THEN DeTokenGot(w, BuilderToken(seed, w.heap, w.tokens, value.kind,
                                    ReadStr(format, value.text).str))
    ELSE DeResult(w, 0, TRUE)

\* self.0.node(kind, children) returned r.
DeNodeGot(w, r) ==
    DeResult([w EXCEPT !.heap = r.heap, !.nodes = r.table], r.result, r.fault)

\* NodeSeed, de.rs lines 201-261: the kind, the children (c is what
\* NodeChildrenSeed returned), then Builder::node with the Vec moved in.
DeNodeOver(seed, w, kind, c, overflow_checks) ==
    IF c.err THEN DeResult(c.w, 0, TRUE)
    ELSE DeNodeGot(c.w, NodePacked(seed, c.w.heap, c.w.nodes, kind, c.handles,
                                   overflow_checks))

RECURSIVE DeElement(_, _, _, _, _)
RECURSIVE DeChildren(_, _, _, _, _, _)
RECURSIVE DeChildrenNext(_, _, _, _, _, _)

\* ElementSeed, de.rs lines 293-413: a node or a token, by its variant.
DeElement(seed, w, value, format, overflow_checks) ==
    IF value.variant = "Token" THEN DeToken(seed, w, value, format)
    ELSE DeNodeOver(seed, w, value.kind,
                    DeChildren(seed, w, value.children, <<>>, format, overflow_checks),
                    overflow_checks)

\* NodeChildrenSeed::visit_seq, de.rs lines 279-290, after next_element_seed
\* returned e: an error returns at once (the Vec v is dropped), an element
\* is pushed.
DeChildrenNext(seed, e, rest, v, format, overflow_checks) ==
    IF e.err
    THEN [w |-> [e.w EXCEPT !.heap = DropHandles(@, v)], handles |-> <<>>, err |-> TRUE]
    ELSE DeChildren(seed, e.w, rest, Append(v, e.result), format, overflow_checks)

\* The Vec is made with the capacity of seq.size_hint() or empty, which does
\* not show in its contents.
DeChildren(seed, w, values, v, format, overflow_checks) ==
    IF values = <<>> THEN [w |-> w, handles |-> v, err |-> FALSE]
    ELSE DeChildrenNext(seed,
                        DeElement(seed, w, Head(values), format, overflow_checks),
                        Tail(values), v, format, overflow_checks)

\* A Builder::new() of its own: nothing allocated, nothing interned.
FreshWorld(h) == World([a \in DOMAIN h |-> FreeCell], RawTableNew, RawTableNew, NoTree)

\* The calls of a script on a TreeBuilder, then finish().
RECURSIVE RunScript(_, _, _, _)
RunScript(seed, w, script, overflow_checks) ==
    IF script = <<>> THEN TbFinish(w)
    ELSE RunScript(seed, ScriptCall(seed, w, Head(script), overflow_checks),
                   Tail(script), overflow_checks)

-----------------------------------------------------------------------------
(* The round-trip specification: a tree is built by a script on a           *)
(* TreeBuilder, serialized, and deserialized either through the same        *)
(* Builder or through a fresh one, on which the script is then run.         *)

SerdeModes == {"same", "fresh"}

InitSerde ==
    /\ heap = [a \in 1..MaxWrapAddr |-> FreeCell]
    /\ ext = [a \in 1..MaxWrapAddr |-> 0]
    /\ nodes = RawTableNew
    /\ tokens = RawTableNew
    /\ hasher \in Seeds
    /\ env = TreeEnv
    /\ last = NoCall
    /\ nd = NoNode
    /\ probe = NoProbe
    /\ tb = NoTree
    /\ sh = NoShadow
    /\ it = NoIter
    /\ rp \in {[NoReplay EXCEPT !.script = script, !.pass = "first", !.mode = mode] :
                 script \in Scripts, mode \in SerdeModes}
    /\ dr = NoDrop
    /\ de = NoSerde

Built == rp.pass \in {"second", "recycle"} /\ de.phase = "none" /\ ~tb.fault

\* The deserializer returned r for the input.
SerdeReturned(r, format, hint, input, again) ==
    /\ de' = [phase |-> "done", format |-> format, hint |-> hint, input |-> input,
              result |-> r.result, err |-> r.err, again |-> again]
    /\ rp' = [rp EXCEPT !.pass = "done"]
    /\ UNCHANGED <<ext, hasher, env, last, nd, probe, it, dr>>

\* tree.builder().deserialize_node().deserialize(value), serde.rs test
\* lines 57-68.
SerdeSameReturned(r, format, hint, input) ==
    /\ Becomes(r.w)
    /\ sh' = sh
    /\ SerdeReturned(r, format, hint, input, 0)

SerdeSame(format, hint) ==
    /\ Built
    /\ rp.mode = "same"
    /\ SerdeSameReturned(DeElement(hasher, Now, Serialized(heap, rp.root), format,
                                   env.overflow_checks),
                         format, hint, Serialized(heap, rp.root))

\* Builder::new().deserialize_node().deserialize(value), and the script on
\* that Builder afterwards.
SerdeFreshReturned(r, after, format, hint, input) ==
    /\ sh' = [NoShadow EXCEPT !.phase = "fresh", !.world = after]
    /\ UNCHANGED <<heap, nodes, tokens, tb>>
    /\ SerdeReturned(r, format, hint, input, after.tb.result)

SerdeFreshGot(seed, r, format, hint, input) ==
    SerdeFreshReturned(r, RunScript(seed, r.w, rp.script, env.overflow_checks),
                       format, hint, input)

SerdeFresh(seed, format, hint) ==
    /\ Built
    /\ rp.mode = "fresh"
    /\ SerdeFreshGot(seed,
                     DeElement(seed, FreshWorld(heap), Serialized(heap, rp.root),
                               format, env.overflow_checks),
                     format, hint, Serialized(heap, rp.root))

NextSerde ==
    \/ rp.pass = "first" /\ ReplayStep
    \/ FinishFirst
    \/ \E format \in Formats : \E hint \in BOOLEAN : SerdeSame(format, hint)
    \/ \E seed \in Seeds : \E format \in Formats : \E hint \in BOOLEAN :
          SerdeFresh(seed, format, hint)

SpecSerde == InitSerde /\ [][NextSerde]_vars

\* C26: serializing any tree that was built through Builder B and
\* deserializing the result with B.deserialize_node() returns a handle
\* pointer-identical to the original root and leaves B.size() unchanged;
\* deserializing it through a fresh Builder returns the handle that the same
\* bottom-up token/node calls return on that Builder.
C26_RoundTripIsIdentity ==
    de.phase = "done" =>
       /\ ~de.err
       /\ rp.mode = "same" =>
             /\ de.result = rp.root
             /\ Size(nodes, tokens) = rp.size
       /\ rp.mode = "fresh" =>
             /\ ~sh.world.tb.fault
             /\ de.again = de.result
             /\ Shape(sh.world.heap, de.result) = Shape(heap, rp.root)

-----------------------------------------------------------------------------
(* The deduplication specification: a hand-written input, with plain        *)
(* strings for the texts, is deserialized through a fresh Builder, from a   *)
(* sequence that reports its length or from one that does not               *)
(* (tests/serde.rs, deduplication_of_nodes_happens).                        *)

MaxDedupChildren == 3 \* children of the root of the input

TokenValue(kind, text) ==
    [variant |-> "Token", kind |-> kind, text |-> [some |-> TRUE, str |-> text]]

NodeValue(kind, children) == [variant |-> "Node", kind |-> kind, children |-> children]

\* The elements the root of an input is made of: the tokens, and the nodes
\* over one or two of them.
DedupTokens == {TokenValue(0, text) : text \in Texts}

DedupElements ==
    DedupTokens
       \cup {NodeValue(1, <<t>>) : t \in DedupTokens}
       \cup {NodeValue(1, <<TokenValue(0, <<>>), TokenValue(0, <<97>>)>>)}

DedupInputs ==
    {NodeValue(0, children) : children \in SeqsUpTo(DedupElements, MaxDedupChildren)}

InitDedup ==
    /\ heap = [a \in 1..MaxWrapAddr |-> FreeCell]
    /\ ext = [a \in 1..MaxWrapAddr |-> 0]
    /\ nodes = RawTableNew
    /\ tokens = RawTableNew
    /\ hasher \in Seeds
    /\ env = TreeEnv
    /\ last = NoCall
    /\ nd = NoNode
    /\ probe = NoProbe
    /\ tb = NoTree
    /\ sh = NoShadow
    /\ it = NoIter
    /\ rp = NoReplay
    /\ dr = NoDrop
    /\ de \in {[NoSerde EXCEPT !.phase = "input", !.format = "transparent",
                               !.hint = hint, !.input = input] :
                 hint \in BOOLEAN, input \in DedupInputs}

\* Builder::new().deserialize_node().deserialize(input) returned r.
DedupReturned(r) ==
    /\ Becomes(r.w)
    /\ de' = [de EXCEPT !.phase = "done", !.result = r.result, !.err = r.err]
    /\ UNCHANGED <<ext, hasher, env, last, nd, probe, sh, it, rp, dr>>

DedupDeserialize ==
    /\ de.phase = "input"
    /\ DedupReturned(DeElement(hasher, Now, de.input, de.format, env.overflow_checks))

NextDedup == DedupDeserialize

SpecDedup == InitDedup /\ [][NextDedup]_vars

\* C27: deserialization interns every leaf and every subtree through the
\* Builder: when the input contains two structurally identical subtrees
\* (same kinds, same texts, same shape), the corresponding children of the
\* deserialized node are pointer-identical, whether or not the input
\* sequence reports its length in advance.
C27_IdenticalSubtreesShared ==
    de.phase = "done" =>
       /\ ~de.err
       /\ Len(heap[de.result].children) = Len(de.input.children)
       /\ \A i \in 1..Len(de.input.children) : \A j \in 1..Len(de.input.children) :
             de.input.children[i] = de.input.children[j] =>
                heap[de.result].children[i].ptr = heap[de.result].children[j].ptr

-----------------------------------------------------------------------------
(* Immutability of the tree data behind a handle.                           *)

\* What the accessors of an allocation read: kind(), len(), text() and
\* children() (node.rs lines 117-133, token.rs lines 53-71); everything but
\* the strong count.
Frozen(cell) ==
    [tag |-> cell.tag, kind |-> cell.kind, text |-> cell.text,
     text_len |-> cell.text_len, children |-> cell.children]

\* C28: once a node or token handle has been returned, no later operation
\* (token, node, any TreeBuilder operation, gc, turn_gc, dropping other
\* handles) changes its kind, its length, its text, or the number, order,
\* identity or offsets of its children, for as long as the handle is alive:
\* over every step, what is reachable from a handle the user holds before
\* and after the step reads the same.
C28_HandlesImmutable ==
    [][\A a \in Held : ext'[a] > 0 =>
          \A b \in ReachFrom({a}) : Frozen(heap'[b]) = Frozen(heap[b])]_vars

\* The user holds a node over a token and a node, a second tree was built
\* and finished on the same Builder, and gc() ran after that.
C28_Witness ==
    /\ last.op = "gc"
    /\ tb.finishes >= 2
    /\ \E a \in Held :
          /\ heap[a].tag = "node"
          /\ Len(heap[a].children) = 2
          /\ \E i \in 1..2 : heap[heap[a].children[i].ptr].tag = "token"

-----------------------------------------------------------------------------
(* The collecting specification: trees are built through a TreeBuilder,     *)
(* the user drops roots, and gc() / turn_gc() run on tree.builder() at any  *)
(* point between the construction steps.                                    *)

KeepEnv == [TreeEnv EXCEPT !.kinds = {0}]

InitKeep == InitWith(KeepEnv, Seeds)

NextKeep ==
    \/ \E kind \in env.token_kinds : \E text \in env.texts : TreeToken(kind, text)
    \/ \E kind \in env.kinds : TreeStartNode(kind)
    \/ TreeFinishNode
    \/ \E c \in Checkpoints : \E kind \in env.kinds : TreeStartNodeAt(c, kind)
    \/ \E c \in Checkpoints : TreeFinishNodeAt(c)
    \/ TreeFinish
    \/ \E a \in Addrs : DropExt(a)
    \/ CallGc
    \/ CallTurnGc

SpecKeep == InitKeep /\ [][NextKeep]_vars

\* The handles held outside the pool: the user's and the elements waiting
\* in the children buffer of the TreeBuilder.
Outside == Held \cup {tb.children[i] : i \in 1..Len(tb.children)}

\* The collection that left r kept every entry reachable from a handle held
\* outside the pool, with what it reads, and builder.node(n.kind(),
\* n.children()) on what it left returns n for every node n the user holds.
KeptBy(r) ==
    /\ \A a \in ReachFrom(Outside) :
          /\ Frozen(r.heap[a]) = Frozen(heap[a])
          /\ a \in Cached => a \in Stored(r.nodes) \cup Stored(r.tokens)
    /\ \A n \in Held :
          heap[n].tag = "node" =>
             LET again == BuilderNode(hasher, r.heap, r.nodes, heap[n].kind,
                                      ChildPtrs(heap, n), env.overflow_checks)
             IN  ~again.fault /\ again.hit /\ again.result = n

-----------------------------------------------------------------------------
(* The frame stack of the TreeBuilder.                                      *)

\* C30: in every TreeBuilder state reached by a non-faulting sequence of
\* token, start_node, start_node_at, finish_node, finish_node_at and finish
\* calls, the first_child indices on the frame stack are non-decreasing from
\* bottom to top and every one of them is <= children.len(); hence the
\* drain range of finish_node and finish_node_at is within the buffer.
C30_FramesWithinBuffer ==
    ~tb.fault =>
       /\ \A i \in 1..Len(tb.stack) : tb.stack[i].first_child <= Len(tb.children)
       /\ \A i \in 1..Len(tb.stack) : \A j \in i..Len(tb.stack) :
             tb.stack[i].first_child <= tb.stack[j].first_child

\* finish_node_at has wrapped the one element between the inner frame and
\* the checkpoint, the element after the checkpoint moved behind the new
\* node, and the outer frame, opened behind the first element, is still on
\* the stack.
C30_Witness ==
    /\ ~tb.fault
    /\ tb.op = "finish_node_at"
    /\ Len(tb.stack) = 1
    /\ tb.stack[1].first_child = 1
    /\ Len(tb.children) = 2

-----------------------------------------------------------------------------
(* Closure of the cache under children.                                     *)

\* C31: when every element given to the Builder was obtained from that same
\* Builder, the cache is closed under children in every reachable state,
\* across any interleaving of token, node, handle drops, turn_gc and gc:
\* every child of a cached node is itself a live cached entry.
C31_CacheClosedUnderChildren ==
    \A a \in Stored(nodes) :
       /\ heap[a].tag = "node"
       /\ \A i \in 1..Len(heap[a].children) :
             /\ heap[a].children[i].ptr \in Cached
             /\ heap[heap[a].children[i].ptr].tag # "free"

\* turn_gc() has just removed an entry, and a node with a child is still
\* cached.
C31_Witness ==
    /\ last.op = "turn_gc"
    /\ last.hit
    /\ \E a \in Stored(nodes) : heap[a].children # <<>>

-----------------------------------------------------------------------------
(* Splitting, copying and folding Children.  Children and                   *)
(* ChildrenWithOffsets are one macro: the same slice iterator and the same  *)
(* alignment flag, with and without the offset in the item.                 *)

MaxMid == 3    \* largest index given to split_at

\* Children::split_at, lines 72-80: slice::split_at panics if mid > len.
ChildrenSplitAtSameAlign(c, mid) ==
    [fault |-> mid > ChildrenLen(c),
     left |-> [front |-> c.front, back |-> c.front + mid, full_align |-> c.full_align],
     right |-> [front |-> c.front + mid, back |-> c.back, full_align |-> c.full_align]]

ChildrenSplitAt(c, mid) ==
    [fault |-> mid > ChildrenLen(c),
     left |-> [front |-> c.front, back |-> c.front + mid, full_align |-> c.full_align],
     right |-> [front |-> c.front + mid, back |-> c.back,
                full_align |-> c.full_align # (mid % 2 = 1)]]

\* #[derive(Clone)], Children::with_offsets and
\* ChildrenWithOffsets::without_offsets, lines 13, 24, 205-215: the slice
\* iterator is cloned and the flag copied.
ChildrenCopy(c) == [front |-> c.front, back |-> c.back, full_align |-> c.full_align]

\* fold whose loop always starts with the full-aligned read.
RECURSIVE FoldLoop(_, _, _, _)
ChildrenFoldFullFirst(node, c) == FoldLoop(node, c, TRUE, <<>>)

\* The loops of fold, lines 142-156: the reads alternate between the two
\* layouts; only the slice iterator is advanced, and the first None ends
\* the fold.
FoldLoop(node, c, aligned, accum) ==
    IF c.front = c.back THEN [inner |-> c, items |-> accum]
    ELSE FoldLoop(node, [c EXCEPT !.front = @ + 1], ~aligned,
                  Append(accum, ReadElement(node, c.front, aligned)))

\* Iterator::fold, lines 126-157, with f = |accum, el| accum ++ [el].
ChildrenFold(node, c) == FoldLoop(node, c, c.full_align, <<>>)

\* let (left, right) = it.split_at(mid); the user goes on with one of them.
IterSplitAt(mid, right) ==
    LET r == ChildrenSplitAt(it.inner, mid)
    IN  /\ it.used
        /\ it' = IF r.fault THEN it
                 ELSE [it EXCEPT !.inner = IF right THEN r.right ELSE r.left,
                                 !.item = NoItem]
        /\ last' = [NoCall EXCEPT !.op = "split_at", !.result = mid, !.hit = ~r.fault,
                                  !.size_before = ChildrenLen(it.inner)]
        /\ UNCHANGED <<heap, ext, nodes, tokens, hasher, env, nd, probe, tb, sh, rp, dr, de>>

\* let it = it.clone(); / it.with_offsets(); / it.without_offsets();
IterCopy(op) ==
    /\ it.used
    /\ it' = [it EXCEPT !.inner = ChildrenCopy(it.inner), !.item = NoItem]
    /\ last' = [NoCall EXCEPT !.op = op, !.size_before = ChildrenLen(it.inner)]
    /\ UNCHANGED <<heap, ext, nodes, tokens, hasher, env, nd, probe, tb, sh, rp, dr, de>>

\* it.fold(vec![], ..) returned r: the iterator is consumed, the folded
\* elements are noted.
IterFolded(r) ==
    /\ it.used
    /\ it' = [it EXCEPT !.inner = r.inner, !.item = NoItem, !.fronts = r.items]
    /\ last' = [NoCall EXCEPT !.op = "fold", !.result = Len(r.items), !.hit = TRUE,
                              !.size_before = ChildrenLen(it.inner)]
    /\ UNCHANGED <<heap, ext, nodes, tokens, hasher, env, nd, probe, tb, sh, rp, dr, de>>

IterFold == last.op # "fold" /\ IterFolded(ChildrenFold(nd.node, it.inner))

NextAlign ==
    \/ \E kind \in Kinds :
         \E lens \in SeqsUpTo(IterLens, MaxIterFanout) :
            ~it.used /\ BuildNode(kind, [i \in 1..Len(lens) |-> Elem(i, lens[i])])
    \/ IterNew
    \/ last.op # "fold" /\ IterSeek(ChildrenNext(nd.node, it.inner), "next", 0)
    \/ last.op # "fold" /\ IterSeek(ChildrenNextBack(nd.node, it.inner), "next_back", 0)
    \/ \E n \in 0..MaxSeek : last.op # "fold" /\ IterNth(n)
    \/ \E n \in 0..MaxSeek : last.op # "fold" /\ IterNthBack(n)
    \/ \E mid \in 0..MaxMid : \E right \in BOOLEAN :
          last.op # "fold" /\ IterSplitAt(mid, right)
    \/ \E op \in {"clone", "with_offsets", "without_offsets"} :
          last.op # "fold" /\ IterCopy(op)
    \/ IterFold

SpecAlign == InitIter /\ [][NextAlign]_vars

\* Every item of the sequence was read with the layout it was written with
\* and is the child at its index.
AllSound(items) ==
    \A j \in 1..Len(items) : IsChild(items[j], items[j].index)

\* C32: in every state of a Children or ChildrenWithOffsets iterator reached
\* by next, nth, next_back, nth_back, split_at, clone, with_offsets and
\* without_offsets, full_align is true exactly when the head element sits at
\* an even index of the node's child array, and every element read by peek,
\* get, next, nth, next_back, nth_back or fold is read with the layout of
\* the parity of its own index, even index full-aligned and odd index
\* half-aligned, which is the layout the constructor wrote it with.
C32_AlignmentFollowsIndex ==
    it.used =>
       /\ \A i \in 1..Len(nd.node.children) :
             nd.node.children[i].full = ((i - 1) % 2 = 0)
       /\ ChildrenLen(it.inner) > 0 =>
             (it.inner.full_align <=> (it.inner.front % 2 = 0))
       /\ it.item.some => IsChild(it.item, it.item.index)
       /\ AllSound(it.fronts)
       /\ NoneOrChild(ChildrenPeek(nd.node, it.inner), it.inner.front,
                      ChildrenLen(it.inner) > 0)
       /\ NoneOrChild(ChildrenNext(nd.node, it.inner), it.inner.front,
                      ChildrenLen(it.inner) > 0)
       /\ NoneOrChild(ChildrenNextBack(nd.node, it.inner), it.inner.back - 1,
                      ChildrenLen(it.inner) > 0)
       /\ AllSound(ChildrenFold(nd.node, it.inner).items)
       /\ \A k \in 0..MaxIterFanout :
             /\ NoneOrChild(ChildrenGet(nd.node, it.inner, k), it.inner.front + k,
                            k < ChildrenLen(it.inner))
             /\ NoneOrChild(ChildrenNth(nd.node, it.inner, k), it.inner.front + k,
                            k < ChildrenLen(it.inner))
             /\ NoneOrChild(ChildrenNthBack(nd.node, it.inner, k),
                            it.inner.back - 1 - k, k < ChildrenLen(it.inner))

\* After split_at(1) on four children the user went on with the right part,
\* whose head is the half-aligned child 1, and next_back() then read the
\* half-aligned child 3.
C32_Witness ==
    /\ it.used
    /\ Len(nd.node.children) = 4
    /\ last.op = "next_back"
    /\ it.inner.front = 1 /\ it.inner.back = 3 /\ ~it.inner.full_align
    /\ it.item.some /\ it.item.index = 3

\* fold returned r from the iterator c: f was applied to the remaining
\* elements, once each, in the order next() yields them, and the slice
\* iterator was left empty.
FoldsRemaining(r, c) ==
    /\ r.items = CollectNext(nd.node, c)
    /\ Len(r.items) = ChildrenLen(c)
    /\ \A j \in 1..Len(r.items) : IsChild(r.items[j], c.front + j - 1)
    /\ r.inner.front = r.inner.back

\* C33: from every reachable iterator state, including one whose head is
\* half-aligned (after an odd number of elements was consumed from the front
\* or after split_at at an odd mid) and one with an odd number of remaining
\* elements, fold(init, f) applies f to exactly the remaining elements, once
\* each and in the order repeated next() would yield them, and then stops.
C33_FoldVisitsRemaining ==
    /\ (it.used /\ last.op # "fold") =>
          FoldsRemaining(ChildrenFold(nd.node, it.inner), it.inner)
    /\ last.op = "fold" =>
          /\ Len(it.fronts) = last.size_before
          /\ ChildrenLen(it.inner) = 0
          /\ \A j \in 1..Len(it.fronts) :
                IsChild(it.fronts[j], it.inner.back - Len(it.fronts) + j - 1)

\* fold ran from a half-aligned head over an odd number of elements: the
\* children 1, 2 and 3 of four.
C33_Witness ==
    /\ last.op = "fold"
    /\ Len(nd.node.children) = 4
    /\ Len(it.fronts) = 3
    /\ it.fronts[1].index = 1 /\ it.fronts[3].index = 3

-----------------------------------------------------------------------------
(* Dropping a handle that is not the last one.                              *)

\* The heap after one decrement of a's strong count, nothing else touched.
Decremented(h, a) == [h EXCEPT ![a].rc = @ - 1]

\* The handle on top of the frame's work stack is popped next.
PopsShared(f) ==
    /\ f.entered /\ f.pending = 0 /\ f.stack # <<>>
    /\ heap[f.stack[Len(f.stack)]].rc > 1

\* C34: dropping a handle to a node that is not its last handle (the node
\* is still held by a user or by another parent) only decrements that
\* node's count; the counts of its children and of all its descendants are
\* unchanged and nothing is freed.  This holds for a direct drop and for a
\* node popped from the destructor's work stack.
C34_SharedDropOnlyDecrements ==
    /\ \A a \in Addrs :
          (heap[a].tag = "node" /\ heap[a].rc > 1) =>
             /\ DropNode(heap, a) = Decremented(heap, a)
             /\ ArcDrop(heap, a) = [heap |-> Decremented(heap, a), was_last |-> FALSE]
             /\ DrainStack(heap, <<a>>) = Decremented(heap, a)
    /\ \A t \in DropThreads :
          (Running(t) /\ PopsShared(TopFrame(dr.threads[t].frames))) =>
             LET f == TopFrame(dr.threads[t].frames)
                 this == f.stack[Len(f.stack)]
                 r == MaybeDropInto(heap, f)
             IN  /\ r.heap = heap
                 /\ r.frame = [f EXCEPT !.stack = SubSeq(f.stack, 1, Len(f.stack) - 1),
                                        !.pending = this]
                 /\ ArcDrop(r.heap, this)
                       = [heap |-> Decremented(heap, this), was_last |-> FALSE]
    /\ \A t \in DropThreads :
          (Running(t) /\ TopFrame(dr.threads[t].frames).pending # 0) =>
             /\ Frozen(heap[TopFrame(dr.threads[t].frames).pending])
                   = Frozen(dr.before[TopFrame(dr.threads[t].frames).pending])
             /\ \A b \in ReachFrom({TopFrame(dr.threads[t].frames).pending}) :
                   heap[b].tag # "free" /\ heap[b].rc >= 1

\* A destructor popped a node with children from its work stack and found
\* it shared; the node and what it reaches are still allocated.
C34_Witness ==
    \E t \in DropThreads :
        /\ Running(t)
        /\ TopFrame(dr.threads[t].frames).pending # 0
        /\ heap[TopFrame(dr.threads[t].frames).pending].rc = 2
        /\ heap[TopFrame(dr.threads[t].frames).pending].children # <<>>

-----------------------------------------------------------------------------
(* Termination of Node::drop.  A thread that is inside a drop goes on: the  *)
(* work loop has no exit but the empty stack.                               *)

SpecSerialFair == InitDrop /\ [][NextSerial]_vars /\ WF_vars(NextSerial)

\* C35: dropping the last handle to any finite tree terminates: each
\* work-stack step either frees one node, pushing only its node children,
\* or decrements one shared node, so the work stack eventually becomes
\* empty, and at that point every node and token that was reachable only
\* through the dropped handle has been freed.
C35_DropTerminates == <>[](Quiet /\ KeptCounts /\ heap = DroppedInTurn)

\* Both drops are over, the second one was the last handle to a tree whose
\* root has two children, and the whole tree is freed.
C35_Witness ==
    /\ Quiet
    /\ heap = EmptyHeap
    /\ Len(dr.before[DropToken0 + MaxDropNodes].children) = 2
    /\ dr.threads[1].handle = DropToken0 + MaxDropNodes
    /\ dr.threads[2].handle = DropToken0 + MaxDropNodes

-----------------------------------------------------------------------------
(* Termination of gc().                                                     *)

\* The node loop of gc, lines 188-190, with its sweeps counted: r is what
\* the sweep just made returned.
RECURSIVE NodeGcCounted(_, _, _)
NodeGcSwept(r, ns, sweeps) ==
    IF r.removed
    THEN [NodeGcCounted(r.heap, r.table, sweeps + 1) EXCEPT
             !.shrinks = @ /\ TableLen(r.table) < TableLen(ns)
                           /\ Stored(r.table) \subseteq Stored(ns)]
    ELSE [heap |-> r.heap, table |-> r.table, removed |-> r.removed,
          sweeps |-> sweeps + 1,
          shrinks |-> (r.table = ns)]

NodeGcCounted(h, ns, sweeps) == NodeGcSwept(TurnNodeGc(h, ns), ns, sweeps)

\* gc() from the current state: g is what it returns, n its counted node
\* loop.
GcTerminated(g, n) ==
    /\ n.sweeps <= TableLen(nodes) + 1
    /\ n.shrinks
    /\ n.table = NodeGcFixpoint(heap, nodes).table
    /\ n.heap = NodeGcFixpoint(heap, nodes).heap
    /\ g.nodes = n.table
    /\ ~TurnNodeGc(g.heap, g.nodes).removed
    /\ g.tokens = TurnTokenGc(n.heap, tokens).table
    /\ g.asserted
    /\ ~TurnTokenGc(g.heap, g.tokens).removed

\* C36: gc() terminates from every reachable cache state: every node sweep
\* that reports a removal removes at least one node entry and none is added
\* meanwhile, so the loop runs at most (number of cached nodes + 1) node
\* sweeps, followed by exactly one effective token sweep (a second token
\* sweep removes nothing).
C36_GcTerminates == GcTerminated(Gc(heap, nodes, tokens), NodeGcCounted(heap, nodes, 0))

\* Two cached nodes, the child met before its parent by the sweep: gc()
\* needs a sweep for each and a third one that removes nothing, and the
\* token sweep then removes the token.
C36_Witness ==
    /\ TableLen(nodes) = 2
    /\ TableLen(tokens) = 1
    /\ NodeGcCounted(heap, nodes, 0).sweeps = 3
    /\ Gc(heap, nodes, tokens).tokens # tokens

-----------------------------------------------------------------------------
(* The faults of finish_node_at.                                            *)

\* The world r without the name of the method that made it.
Unnamed(r) == [r EXCEPT !.tb.op = "none"]

\* finish_node_at(Checkpoint(c)) from the current state returned r.
FinishNodeAtFaults(r, c) ==
    /\ r.tb.fault <=> \/ tb.stack = <<>>
                      \/ c > Len(tb.children)
                      \/ (tb.stack # <<>> /\ c < Top.first_child)
    /\ ~r.tb.fault => r.tb.op = "finish_node_at"
    /\ c = Len(tb.children) =>
          Unnamed(r) = Unnamed(TbFinishNode(hasher, Now, env.overflow_checks))

\* C37: finish_node_at(c) faults if the frame stack is empty, if
\* c > children.len(), or if c is less than the first_child of the frame it
\* pops; in every other case it succeeds, and with c = children.len() its
\* effect on the buffer, the stack and the cache is that of finish_node().
C37_FinishNodeAtFaults ==
    ~tb.fault =>
       \A c \in 0..(MaxBuffer + 1) :
          FinishNodeAtFaults(TbFinishNodeAt(hasher, Now, c, env.overflow_checks), c)

\* finish_node_at(Checkpoint(2)) wrapped the whole buffer of two elements,
\* as finish_node() would have.
C37_Witness ==
    /\ ~tb.fault
    /\ tb.op = "finish_node_at"
    /\ tb.stack = <<>>
    /\ Len(tb.children) = 1
    /\ heap[tb.children[1]].tag = "node"
    /\ Len(heap[tb.children[1]].children) = 2

-----------------------------------------------------------------------------
(* Overflow of the length sum.                                              *)

\* C38: the length invariant survives 32-bit overflow: when the exact sum
\* of the children's lengths exceeds 2^32 - 1, node construction faults
\* rather than returning a node whose len() and child offsets are the sums
\* reduced modulo 2^32.
C38_OverflowFaults ==
    /\ (nd.state # "none" /\ ~SumFits) => nd.state = "fault"
    /\ nd.state = "built" =>
          /\ nd.node.text_len = WideSum(InputLens)
          /\ \A i \in 1..Len(nd.node.children) :
                ElementOffset(nd.node, i - 1) = WideSum(SubSeq(InputLens, 1, i - 1))

-----------------------------------------------------------------------------
(* finish() and a token at the root.                                        *)

\* C39: finish() only ever returns a node: when the frame stack is empty and
\* the single remaining element is a token (added by token() or add() outside
\* any started node), finish() faults instead of returning, and that element
\* has already been removed from the children buffer when the fault is
\* raised.
C39_FinishReturnsOnlyNodes ==
    ~tb.fault =>
        LET w == TbFinish(Now)
        IN  /\ ~w.tb.fault => heap[w.tb.result].tag = "node"
            /\ (/\ tb.stack = <<>>
                /\ Len(tb.children) = 1
                /\ heap[tb.children[1]].tag = "token") =>
                  /\ w.tb.fault
                  /\ w.tb.children = <<>>
                  /\ w.tb.stack = <<>>
                  /\ w.heap = DropToken(heap, tb.children[1])
                  /\ w.nodes = nodes /\ w.tokens = tokens

\* finish() faulted on a builder that never started a node and had added one
\* token: the buffer is empty and the token is still cached.
C39_Witness ==
    /\ tb.op = "finish" /\ tb.fault
    /\ tb.starts = 0
    /\ tb.stack = <<>> /\ tb.children = <<>>
    /\ TableLen(tokens) = 1
    /\ \E a \in DOMAIN heap : heap[a].tag = "token" /\ heap[a].rc = 1

====
